---- MODULE Spec2Model ----
(***************************************************************************)
(* A model of the rdf2go Dataset (dataset.go, quad.go, mime.go): an        *)
(* in-memory quad store keyed by *Quad (allocation identity), its pattern  *)
(* queries, graph projections, Merge, the channel of IterQuads, the        *)
(* Parse / Serialize dispatch with the TriG, JSON-LD and flat writers, the *)
(* loop of the TriG parser line by line, Quad.Equal, and the base IRI and  *)
(* self-term of a dataset under LoadURI.                                   *)
(***************************************************************************)
EXTENDS Integers, Sequences, FiniteSets, TLC

(***************************************************************************)
(* Bounds.                                                                 *)
(***************************************************************************)
\* the number of *Quad allocations a behaviour may perform
MaxQuads == 3
\* the number of lines of a TriG document that is parsed line by line
MaxLines == 3

(***************************************************************************)
(* Terms.  A Term is an interface value: nil, *Resource, *Literal or       *)
(* *BlankNode.  The fields are those dataset.go reads (t.URI, t.ID,        *)
(* t.Value, t.Language, t.Datatype).                                       *)
(***************************************************************************)
Nil == [kind |-> "nil"]

NewResource(uri) == [kind |-> "Resource", URI |-> uri]

NewBlankNode(id) == [kind |-> "BlankNode", ID |-> id]

Literal(value, language, datatype) ==
    [kind |-> "Literal", Value |-> value, Language |-> language, Datatype |-> datatype]

NewLiteral(value) == Literal(value, "", Nil)

\* Term.Equal: structural and variant-specific; absence matches only absence.
\* The datatype of a literal is itself a Term (a resource in this model).
DatatypeEqual(a, b) ==
    IF a = Nil \/ b = Nil
    THEN a = Nil /\ b = Nil
    ELSE a.kind = "Resource" /\ b.kind = "Resource" /\ a.URI = b.URI

TermEqual(term, other) ==
    CASE term.kind = "Resource" ->
            other.kind = "Resource" /\ term.URI = other.URI
      [] term.kind = "BlankNode" ->
            other.kind = "BlankNode" /\ term.ID = other.ID
      [] term.kind = "Literal" ->
            /\ other.kind = "Literal"
            /\ term.Value = other.Value
            /\ term.Language = other.Language
            /\ DatatypeEqual(term.Datatype, other.Datatype)

\* Term.String: the canonical text form, <uri>, "value"^^<datatype>,
\* "value"@lang, "value" or _:id.
TermString(term) ==
    CASE term.kind = "Resource" -> "<" \o term.URI \o ">"
      [] term.kind = "BlankNode" -> "_:" \o term.ID
      [] term.kind = "Literal" ->
            IF term.Datatype # Nil
            THEN "\"" \o term.Value \o "\"^^<" \o term.Datatype.URI \o ">"
            ELSE IF term.Language # ""
                 THEN "\"" \o term.Value \o "\"@" \o term.Language
                 ELSE "\"" \o term.Value \o "\""

(***************************************************************************)
(* Quads.  A *Quad is an allocation: its four terms plus the address that  *)
(* distinguishes it from every other allocation.                           *)
(***************************************************************************)
QuadValue(s, p, o, g) == [Subject |-> s, Predicate |-> p, Object |-> o, Graph |-> g]

\* the k-th allocation holding the value v
QuadAt(v, k) == [val |-> v, addr |-> k]

\* the nil *Quad
NilQuad == [val |-> Nil, addr |-> 0]

\* Quad.Equal with an absent graph of the receiver taken as "any graph"
QuadEqualNilGraphAny(quad, other) ==
    LET sameTriple == /\ TermEqual(quad.Subject, other.Subject)
                      /\ TermEqual(quad.Predicate, other.Predicate)
                      /\ TermEqual(quad.Object, other.Object)
    IN  IF quad.Graph = Nil THEN sameTriple
        ELSE IF other.Graph = Nil THEN FALSE
        ELSE sameTriple /\ TermEqual(quad.Graph, other.Graph)

\* Quad.Equal
QuadEqual(quad, other) ==
    LET sameTriple == /\ TermEqual(quad.Subject, other.Subject)
                      /\ TermEqual(quad.Predicate, other.Predicate)
                      /\ TermEqual(quad.Object, other.Object)
    IN  IF quad.Graph = Nil /\ other.Graph = Nil THEN sameTriple
        ELSE IF quad.Graph = Nil \/ other.Graph = Nil THEN FALSE
        ELSE sameTriple /\ TermEqual(quad.Graph, other.Graph)

\* Quad.ToTriple / NewTriple
ToTriple(quad) == [Subject |-> quad.Subject, Predicate |-> quad.Predicate, Object |-> quad.Object]

(***************************************************************************)
(* The universes the inputs are drawn from.                                *)
(***************************************************************************)
Ra == NewResource("a")
Rx == NewResource("x")
Rb == NewResource("b")
Rc == NewResource("c")
Lc == NewLiteral("c")
Rg == NewResource("g")
\* two literals that are not Equal and have the same String()
LitDt == Literal("v", "", NewResource("d"))
LitLangDt == Literal("v", "en", NewResource("d"))

Subjects == {Ra, Rx}
Predicates == {Rb}
Objects == {Rc}
Graphs == {Nil, Rg, LitDt, LitLangDt}

QuadValues ==
    {QuadValue(s, p, o, g) : s \in Subjects, p \in Predicates, o \in Objects, g \in Graphs}

\* the quad values the mutation specification inserts
StoreValues == {QuadValue(Ra, Rb, Rc, Nil), QuadValue(Ra, Rb, Rc, Rg)}

Datasets == {1, 2}

(***************************************************************************)
(* State.                                                                  *)
(***************************************************************************)
VARIABLES
    heap,   \* the *Quad allocations made so far
    quads,  \* quads[d]: the keys of Dataset d's map[*Quad]bool
    last,   \* the last call and what it returned, or where it stands
    iter,   \* the channel of an IterQuads call that a caller is ranging over
    base    \* base[d]: the fields uri and term of Dataset d

vars == <<heap, quads, last, iter, base>>

Idle == [op |-> "none"]

\* the base IRI the datasets are made with
testDatasetUri == "https://example.org/dataset"

\* NewDataset: the fields uri and term of the new Dataset
NewDataset(u) == [uri |-> u, term |-> NewResource(u)]

\* Dataset.URI
DatasetURI(d) == base[d].uri

\* Dataset.Term
DatasetTerm(d) == base[d].term

\* no IterQuads channel is held by a caller
NoIter == [open |-> FALSE]

\* NewQuad when the allocations made so far are h: a fresh allocation
\* holding v
NewQuadIn(h, v) == QuadAt(v, 1 + Cardinality({q \in h : q.val = v}))

\* NewQuad in the current state
NewQuad(v) == NewQuadIn(heap, v)

\* Dataset.Len
DatasetLen(d) == Cardinality(quads[d])

\* NewDataset: an empty map, no allocation made
Init ==
    /\ heap = {}
    /\ quads = [d \in Datasets |-> {}]
    /\ last = Idle
    /\ iter = NoIter
    /\ base = [d \in Datasets |-> NewDataset(testDatasetUri)]

\* every ordering of a finite set
Orderings(S) ==
    {f \in [1..Cardinality(S) -> S] : \A i, j \in 1..Cardinality(S) : f[i] = f[j] => i = j}

\* Dataset.IterQuads: a closed channel buffered to len(d.quads), filled by
\* ranging over the map; Go leaves the order of a map range unspecified, so
\* the channel may hold the keys in any order.
IterQuads(d) == Orderings(quads[d])

(***************************************************************************)
(* Insertion and removal.                                                  *)
(***************************************************************************)
AddOps == {"Add", "AddQuad", "AddTriple"}

\* the caller builds a quad with NewQuad without inserting it
CallNewQuad(v) ==
    /\ Cardinality(heap) < MaxQuads
    /\ heap' = heap \cup {NewQuad(v)}
    /\ last' = [op |-> "NewQuad", q |-> NewQuad(v)]
    /\ UNCHANGED <<quads, iter, base>>

\* d.quads[q] = true
MapSet(m, q) == m \cup {q}

\* delete(d.quads, q)
MapDelete(m, q) == m \ {q}

\* Dataset.Add, with any *Quad the caller holds
Add(d, q) ==
    /\ quads' = [quads EXCEPT ![d] = MapSet(@, q)]
    /\ last' = [op |-> "Add", d |-> d, q |-> q, len0 |-> DatasetLen(d)]
    /\ UNCHANGED <<heap, iter, base>>

\* the body of Dataset.AddQuad on st = [heap, quads], the allocations made
\* so far and the map of the dataset
DoAddQuad(st, s, p, o, g) ==
    LET q == NewQuadIn(st.heap, QuadValue(s, p, o, g))
    IN  [heap |-> st.heap \cup {q}, quads |-> MapSet(st.quads, q)]

\* the body of Dataset.AddTriple on st
DoAddTriple(st, s, p, o) ==
    LET q == NewQuadIn(st.heap, QuadValue(s, p, o, Nil))
    IN  [heap |-> st.heap \cup {q}, quads |-> MapSet(st.quads, q)]

\* the allocations and the map of dataset d in the current state
StoreOf(d) == [heap |-> heap, quads |-> quads[d]]

\* Dataset.AddQuad
AddQuad(d, s, p, o, g) ==
    LET st == DoAddQuad(StoreOf(d), s, p, o, g) IN
    /\ Cardinality(heap) < MaxQuads
    /\ heap' = st.heap
    /\ quads' = [quads EXCEPT ![d] = st.quads]
    /\ last' = [op |-> "AddQuad", d |-> d, q |-> NewQuad(QuadValue(s, p, o, g)),
                len0 |-> DatasetLen(d)]
    /\ UNCHANGED <<iter, base>>

\* Dataset.AddTriple
AddTriple(d, s, p, o) ==
    LET st == DoAddTriple(StoreOf(d), s, p, o) IN
    /\ Cardinality(heap) < MaxQuads
    /\ heap' = st.heap
    /\ quads' = [quads EXCEPT ![d] = st.quads]
    /\ last' = [op |-> "AddTriple", d |-> d, q |-> NewQuad(QuadValue(s, p, o, Nil)),
                len0 |-> DatasetLen(d)]
    /\ UNCHANGED <<iter, base>>

\* Dataset.Remove, with any *Quad the caller holds.  The record keeps the
\* quad and the length of an insertion into d that immediately preceded.
Remove(d, q) ==
    LET afterAdd == last.op \in AddOps /\ last.d = d IN
    /\ quads' = [quads EXCEPT ![d] = MapDelete(@, q)]
    /\ last' = [op |-> "Remove", d |-> d, q |-> q,
                added |-> IF afterAdd THEN last.q ELSE NilQuad,
                len0 |-> IF afterAdd THEN last.len0 ELSE DatasetLen(d)]
    /\ UNCHANGED <<heap, iter, base>>

\* the loop of Dataset.Merge adding a copy of each quad it receives
RECURSIVE MergeLoopCopies(_, _, _)
MergeLoopCopies(m, ch, i) ==
    IF i > Len(ch) THEN m
    ELSE MergeLoopCopies(MapSet(m, QuadAt(ch[i].val, MaxQuads + 1 + Cardinality(m))),
                         ch, i + 1)

\* the loop of Dataset.Merge over the channel ch, from position i
RECURSIVE MergeLoop(_, _, _)
MergeLoop(m, ch, i) ==
    IF i > Len(ch) THEN m ELSE MergeLoop(MapSet(m, ch[i]), ch, i + 1)

\* Dataset.Merge taking the quads out of toMerge
MergeMoves(d, toMerge) ==
    /\ \E ch \in IterQuads(toMerge) :
          quads' = [quads EXCEPT ![toMerge] = {}, ![d] = MergeLoop(quads[d], ch, 1)]
    /\ last' = [op |-> "Merge", d |-> d, from |-> toMerge, pre |-> quads,
                again |-> last.op = "Merge" /\ last.d = d /\ last.from = toMerge]
    /\ UNCHANGED <<heap, iter, base>>

\* Dataset.Merge.  The record keeps the maps before the call and whether
\* the call repeats the one before it.
Merge(d, toMerge) ==
    /\ \E ch \in IterQuads(toMerge) :
          quads' = [quads EXCEPT ![d] = MergeLoop(@, ch, 1)]
    /\ last' = [op |-> "Merge", d |-> d, from |-> toMerge, pre |-> quads,
                again |-> last.op = "Merge" /\ last.d = d /\ last.from = toMerge]
    /\ UNCHANGED <<heap, iter, base>>

(***************************************************************************)
(* The specification of the store: insertion, removal and merge on two     *)
(* datasets.                                                               *)
(***************************************************************************)
Next ==
    \/ \E v \in StoreValues : CallNewQuad(v)
    \/ \E d \in Datasets, q \in heap : Add(d, q)
    \/ \E d \in Datasets, v \in StoreValues :
          AddQuad(d, v.Subject, v.Predicate, v.Object, v.Graph)
    \/ \E d \in Datasets, v \in StoreValues :
          AddTriple(d, v.Subject, v.Predicate, v.Object)
    \/ \E d \in Datasets, q \in heap : Remove(d, q)
    \/ \E d, toMerge \in Datasets : Merge(d, toMerge)

Spec == Init /\ [][Next]_vars

TypeOK ==
    /\ Cardinality(heap) <= MaxQuads
    /\ \A d \in Datasets : quads[d] \subseteq heap

(***************************************************************************)
(* The channel of IterQuads, for a caller that ranges over it while the    *)
(* dataset is mutated.  IterQuads runs in the goroutine of its caller: a   *)
(* send on a full buffer would wait for a receiver that does not exist     *)
(* yet.                                                                    *)
(***************************************************************************)
\* the loop of IterQuads sending the keys on a channel of capacity cap
RECURSIVE SendAll(_, _, _, _)
SendAll(cap, keys, i, buf) ==
    IF i > Len(keys) THEN [buf |-> buf, closed |-> TRUE, blocked |-> FALSE]
    ELSE IF Len(buf) >= cap THEN [buf |-> buf, closed |-> FALSE, blocked |-> TRUE]
    ELSE SendAll(cap, keys, i + 1, Append(buf, keys[i]))

\* IterQuads with make(chan *Quad): a channel without buffer
IterQuadsChannelUnbuffered(d) ==
    {SendAll(0, keys, 1, <<>>) : keys \in Orderings(quads[d])}

\* Dataset.IterQuads: the channels it may return
IterQuadsChannel(d) ==
    {SendAll(DatasetLen(d), keys, 1, <<>>) : keys \in Orderings(quads[d])}

\* a caller calls IterQuads; the record keeps Len() and the keys of the map
\* at the call
CallIterQuads(d) ==
    /\ iter = NoIter
    /\ \E c \in IterQuadsChannel(d) :
          iter' = [open |-> TRUE, d |-> d, buf |-> c.buf, closed |-> c.closed,
                   blocked |-> c.blocked, got |-> <<>>, done |-> FALSE,
                   len0 |-> DatasetLen(d), snap |-> quads[d]]
    /\ last' = [op |-> "IterQuads", d |-> d]
    /\ UNCHANGED <<heap, quads, base>>

\* one iteration of for quad := range ch
Receive ==
    /\ iter.open
    /\ ~iter.blocked
    /\ ~iter.done
    /\ Len(iter.buf) > 0
    /\ iter' = [iter EXCEPT !.buf = Tail(@), !.got = Append(@, Head(iter.buf))]
    /\ UNCHANGED <<heap, quads, last, base>>

\* the range loop ends: the channel is closed and empty
RangeEnds ==
    /\ iter.open
    /\ ~iter.done
    /\ iter.closed
    /\ Len(iter.buf) = 0
    /\ iter' = [iter EXCEPT !.done = TRUE]
    /\ UNCHANGED <<heap, quads, last, base>>

NextIter ==
    \/ \E v \in StoreValues : AddQuad(1, v.Subject, v.Predicate, v.Object, v.Graph)
    \/ \E q \in heap : Add(1, q)
    \/ \E q \in heap : Remove(1, q)
    \/ CallIterQuads(1)
    \/ Receive
    \/ RangeEnds

SpecIter == Init /\ [][NextIter]_vars

(***************************************************************************)
(* Pattern queries.                                                        *)
(***************************************************************************)
\* OneSkips without its last test: an absent graph taken as a wildcard
OneSkipsGraphWildcard(quad, s, p, o, g) ==
    \/ s # Nil /\ ~TermEqual(quad.Subject, s)
    \/ p # Nil /\ ~TermEqual(quad.Predicate, p)
    \/ o # Nil /\ ~TermEqual(quad.Object, o)
    \/ g # Nil /\ (quad.Graph = Nil \/ ~TermEqual(quad.Graph, g))

\* the five tests of the loop body of Dataset.One: TRUE when the quad is
\* passed over (continue)
OneSkips(quad, s, p, o, g) ==
    \/ s # Nil /\ ~TermEqual(quad.Subject, s)
    \/ p # Nil /\ ~TermEqual(quad.Predicate, p)
    \/ o # Nil /\ ~TermEqual(quad.Object, o)
    \/ g # Nil /\ (quad.Graph = Nil \/ ~TermEqual(quad.Graph, g))
    \/ g = Nil /\ quad.Graph # Nil

\* OneLoop leaving the loop at the first quad it passes over (break for
\* continue)
OneLoopBreaks(ch, i, s, p, o, g) ==
    IF i > Len(ch) THEN NilQuad
    ELSE IF OneSkips(ch[i].val, s, p, o, g) THEN NilQuad
    ELSE ch[i]

\* the loop of Dataset.One over the channel ch, from position i
RECURSIVE OneLoop(_, _, _, _, _, _)
OneLoop(ch, i, s, p, o, g) ==
    IF i > Len(ch) THEN NilQuad
    ELSE IF OneSkips(ch[i].val, s, p, o, g) THEN OneLoop(ch, i + 1, s, p, o, g)
    ELSE ch[i]

\* Dataset.One: what it may return
One(d, s, p, o, g) == {OneLoop(ch, 1, s, p, o, g) : ch \in IterQuads(d)}

\* AllSkips without the test of the object
AllSkipsNoObject(quad, s, p, o, g) ==
    \/ s # Nil /\ ~TermEqual(quad.Subject, s)
    \/ p # Nil /\ ~TermEqual(quad.Predicate, p)
    \/ g # Nil /\ (quad.Graph = Nil \/ ~TermEqual(quad.Graph, g))
    \/ g = Nil /\ quad.Graph # Nil

\* the five tests of the loop body of Dataset.All
AllSkips(quad, s, p, o, g) ==
    \/ s # Nil /\ ~TermEqual(quad.Subject, s)
    \/ p # Nil /\ ~TermEqual(quad.Predicate, p)
    \/ o # Nil /\ ~TermEqual(quad.Object, o)
    \/ g # Nil /\ (quad.Graph = Nil \/ ~TermEqual(quad.Graph, g))
    \/ g = Nil /\ quad.Graph # Nil

\* the loop of Dataset.All over the channel ch, from position i
RECURSIVE AllLoop(_, _, _, _, _, _, _)
AllLoop(found, ch, i, s, p, o, g) ==
    IF i > Len(ch) THEN found
    ELSE IF AllSkips(ch[i].val, s, p, o, g) THEN AllLoop(found, ch, i + 1, s, p, o, g)
    ELSE AllLoop(Append(found, ch[i]), ch, i + 1, s, p, o, g)

\* Dataset.All: what it may return
All(d, s, p, o, g) == {AllLoop(<<>>, ch, 1, s, p, o, g) : ch \in IterQuads(d)}

(***************************************************************************)
(* Graph views.  A Graph is a set of triples deduplicated by structural    *)
(* equality.                                                               *)
(***************************************************************************)
NewGraph == {}

TripleEqual(t, u) ==
    /\ TermEqual(t.Subject, u.Subject)
    /\ TermEqual(t.Predicate, u.Predicate)
    /\ TermEqual(t.Object, u.Object)

GraphAdd(graph, t) ==
    IF \E u \in graph : TripleEqual(u, t) THEN graph ELSE graph \cup {t}

GraphLen(graph) == Cardinality(graph)

\* GetGraphTakes with an absent graph name taking every quad
GetGraphTakesAny(quad, graphName) ==
    \/ graphName = Nil
    \/ graphName # Nil /\ quad.Graph # Nil /\ TermEqual(graphName, quad.Graph)

\* the test of the loop body of Dataset.GetGraph: TRUE when the triple of
\* the quad is added to the view
GetGraphTakes(quad, graphName) ==
    \/ graphName = Nil /\ quad.Graph = Nil
    \/ graphName # Nil /\ quad.Graph # Nil /\ TermEqual(graphName, quad.Graph)

\* the loop of Dataset.GetGraph
RECURSIVE GetGraphLoop(_, _, _, _)
GetGraphLoop(graph, ch, i, graphName) ==
    IF i > Len(ch) THEN graph
    ELSE IF GetGraphTakes(ch[i].val, graphName)
         THEN GetGraphLoop(GraphAdd(graph, ToTriple(ch[i].val)), ch, i + 1, graphName)
         ELSE GetGraphLoop(graph, ch, i + 1, graphName)

\* Dataset.GetGraph: what it may return
GetGraph(d, graphName) == {GetGraphLoop(NewGraph, ch, 1, graphName) : ch \in IterQuads(d)}

\* Dataset.GetDefaultGraph
GetDefaultGraph(d) == GetGraph(d, Nil)

\* m[k] = v on a map[string]Term
MapPut(m, k, v) == [x \in (DOMAIN m) \cup {k} |-> IF x = k THEN v ELSE m[x]]

EmptyMap == [x \in {} |-> Nil]

\* the first loop of Dataset.GetNamedGraphs
RECURSIVE GraphNamesLoop(_, _, _)
GraphNamesLoop(graphNames, ch, i) ==
    IF i > Len(ch) THEN graphNames
    ELSE IF ch[i].val.Graph # Nil
         THEN GraphNamesLoop(MapPut(graphNames, TermString(ch[i].val.Graph), ch[i].val.Graph),
                             ch, i + 1)
         ELSE GraphNamesLoop(graphNames, ch, i + 1)

\* the second loop of Dataset.GetNamedGraphs: the values of the map, in
\* the order of a range over it
MapValues(m) == {[i \in 1..Cardinality(DOMAIN m) |-> m[ks[i]]] : ks \in Orderings(DOMAIN m)}

\* Dataset.GetNamedGraphs: what it may return
GetNamedGraphs(d) ==
    UNION {MapValues(GraphNamesLoop(EmptyMap, ch, 1)) : ch \in IterQuads(d)}

(***************************************************************************)
(* The specification of the queries: a dataset holding any quads that      *)
(* insertions and removals can leave in it, on which one query is made.    *)
(***************************************************************************)
PatternSubjects == {Nil, Ra, Rx}
PatternPredicates == {Nil, Rb}
PatternObjects == {Nil, Rc, Lc}

\* the allocations made by inserting the values vs[1], vs[2], ... in turn
HeapOf(vs) ==
    {QuadAt(vs[i], Cardinality({j \in 1..i : vs[j] = vs[i]})) : i \in 1..Len(vs)}

InitQuery ==
    /\ \E n \in 0..MaxQuads : \E vs \in [1..n -> QuadValues] : heap = HeapOf(vs)
    /\ \E stored \in SUBSET heap : quads = [d \in Datasets |-> IF d = 1 THEN stored ELSE {}]
    /\ last = Idle
    /\ iter = NoIter
    /\ base = [d \in Datasets |-> NewDataset(testDatasetUri)]

CallOne(d, s, p, o, g) ==
    /\ last = Idle
    /\ \E res \in One(d, s, p, o, g) :
          last' = [op |-> "One", d |-> d, s |-> s, p |-> p, o |-> o, g |-> g, res |-> res]
    /\ UNCHANGED <<heap, quads, iter, base>>

CallAll(d, s, p, o, g) ==
    /\ last = Idle
    /\ \E res \in All(d, s, p, o, g) :
          last' = [op |-> "All", d |-> d, s |-> s, p |-> p, o |-> o, g |-> g, res |-> res]
    /\ UNCHANGED <<heap, quads, iter, base>>

CallGetGraph(d, graphName) ==
    /\ last = Idle
    /\ \E res \in GetGraph(d, graphName) :
          last' = [op |-> "GetGraph", d |-> d, g |-> graphName, res |-> res]
    /\ UNCHANGED <<heap, quads, iter, base>>

CallGetDefaultGraph(d) ==
    /\ last = Idle
    /\ \E res \in GetDefaultGraph(d) :
          last' = [op |-> "GetDefaultGraph", d |-> d, g |-> Nil, res |-> res]
    /\ UNCHANGED <<heap, quads, iter, base>>

CallGetNamedGraphs(d) ==
    /\ last = Idle
    /\ \E res \in GetNamedGraphs(d) :
          last' = [op |-> "GetNamedGraphs", d |-> d, res |-> res]
    /\ UNCHANGED <<heap, quads, iter, base>>

NextQuery ==
    \/ \E s \in PatternSubjects, p \in PatternPredicates, o \in PatternObjects, g \in Graphs :
          CallOne(1, s, p, o, g)
    \/ \E s \in PatternSubjects, p \in PatternPredicates, o \in PatternObjects, g \in Graphs :
          CallAll(1, s, p, o, g)
    \/ \E g \in Graphs : CallGetGraph(1, g)
    \/ CallGetDefaultGraph(1)
    \/ CallGetNamedGraphs(1)

SpecQuery == InitQuery /\ [][NextQuery]_vars

(***************************************************************************)
(* Strings (package strings).                                              *)
(***************************************************************************)
HasPrefix(str, prefix) ==
    Len(str) >= Len(prefix) /\ SubSeq(str, 1, Len(prefix)) = prefix

HasSuffix(str, suffix) ==
    Len(str) >= Len(suffix) /\ SubSeq(str, Len(str) - Len(suffix) + 1, Len(str)) = suffix

\* the position of the first occurrence of sub in str, 0 when there is none
Index(str, sub) ==
    LET hits == {i \in 1..(Len(str) - Len(sub) + 1) : SubSeq(str, i, i + Len(sub) - 1) = sub}
    IN  IF hits = {} THEN 0 ELSE CHOOSE i \in hits : \A j \in hits : i <= j

Contains(str, sub) == Index(str, sub) # 0

RECURSIVE Split(_, _)
Split(str, sep) ==
    LET i == Index(str, sep)
    IN  IF i = 0 THEN <<str>>
        ELSE <<SubSeq(str, 1, i - 1)>> \o Split(SubSeq(str, i + Len(sep), Len(str)), sep)

RECURSIVE Join(_, _)
Join(elems, sep) ==
    IF Len(elems) = 0 THEN ""
    ELSE IF Len(elems) = 1 THEN elems[1]
    ELSE elems[1] \o sep \o Join(Tail(elems), sep)

IsSpace(c) == c \in {" ", "\t", "\n", "\r"}

RECURSIVE TrimLeft(_)
TrimLeft(str) ==
    IF Len(str) > 0 /\ IsSpace(SubSeq(str, 1, 1)) THEN TrimLeft(SubSeq(str, 2, Len(str)))
    ELSE str

RECURSIVE TrimRight(_)
TrimRight(str) ==
    IF Len(str) > 0 /\ IsSpace(SubSeq(str, Len(str), Len(str)))
    THEN TrimRight(SubSeq(str, 1, Len(str) - 1))
    ELSE str

TrimSpace(str) == TrimRight(TrimLeft(str))

\* m[k] of a map[string]string: the empty string when k is not a key
MapGet(m, k) == IF k \in DOMAIN m THEN m[k] ELSE ""

(***************************************************************************)
(* mime.go                                                                 *)
(***************************************************************************)
mimeParser ==
    [m \in {"text/turtle", "application/trig", "application/ld+json",
            "application/sparql-update"} |->
        CASE m = "text/turtle" -> "turtle"
          [] m = "application/trig" -> "trig"
          [] m = "application/ld+json" -> "jsonld"
          [] m = "application/sparql-update" -> "internal"]

mimeSerializer ==
    [m \in {"application/ld+json", "application/trig", "text/html"} |->
        CASE m = "application/ld+json" -> "jsonld"
          [] m = "application/trig" -> "trig"
          [] m = "text/html" -> "internal"]

\* the format identifiers the calls are made with
Mimes ==
    {"text/turtle", "application/trig", "application/ld+json",
     "application/sparql-update", "text/html", "text/plain"}

(***************************************************************************)
(* The external collaborators, as what they yield on the documents of this *)
(* model: the Turtle grammar parser (gon3) and the JSON-LD processor       *)
(* (gojsonld).  The triples are given as converted by rdf2term and         *)
(* jterm2term.  A failing Turtle parse has read the triples before the     *)
(* failure.                                                                *)
(***************************************************************************)
Tabc == [Subject |-> Ra, Predicate |-> Rb, Object |-> Rc]
Txbc == [Subject |-> Rx, Predicate |-> Rb, Object |-> Rc]

TurtleGood == "<a> <b> <c> .\n<x> <b> <c> ."
TurtleBad == "<a> <b> <c> .\n<x> <b>"
JsonGood == "[{\"@id\":\"a\",\"b\":[{\"@id\":\"c\"}]}]"
JsonBadSyntax == "[{"
JsonBadExpand == "{\"@context\":1}"
TrigGood == "# two graphs\n{\n  <a> <b> <c> .\n}\n\n<g> {\n  <x> <b> <c> .\n}"
\* a statement that fails after its first triple, then a well-formed one
GroupPartial == "<a> <b> <c> ;\n<b> ."
TrigDropped == "<g> {\n" \o GroupPartial \o "\n<x> <b> <c> .\n}"
\* a statement left unfinished at the end of its block, then a second block
TrigDroppedAtEnd == "{\n<x> <b>\n}\n<g> {\n<a> <b> <c> .\n}"

\* a literal object written with the escape of an opening brace
TrigBrace == "{\n<a> <b> \"x\\u007By\" .\n}"
\* a literal object written with the escape of a closing brace
TrigCloseBrace == "<g> {\n<a> <b> \"x\\u007Dy\" .\n}"
\* a graph labelled with a blank node
TrigBlankGraph == "_:g {\n<a> <b> <c> .\n}"
\* one subject and predicate with two objects
TurtleMulti == "<a> <b> <c> , <x> ."
Tabx == [Subject |-> Ra, Predicate |-> Rb, Object |-> Rx]
\* a statement continued on a second line
GroupContinued == "<a> <b> <c> ;\n<b> <x> ."

Sources ==
    {TurtleGood, TurtleBad, JsonGood, JsonBadSyntax, JsonBadExpand, TrigGood,
     TrigDropped, TrigDroppedAtEnd}

\* rdf.NewParser(uri).Parse(reader) followed by IterTriples
TurtleParser(content) ==
    CASE content = "<a> <b> <c> ." -> [err |-> "", triples |-> <<Tabc>>]
      [] content = "<x> <b> <c> ." -> [err |-> "", triples |-> <<Txbc>>]
      [] content = "<a> <b> <x> ." -> [err |-> "", triples |-> <<Tabx>>]
      [] content = TurtleGood -> [err |-> "", triples |-> <<Tabc, Txbc>>]
      [] content = TurtleBad -> [err |-> "turtle: syntax error", triples |-> <<Tabc>>]
      [] content = GroupPartial -> [err |-> "turtle: syntax error", triples |-> <<Tabc>>]
      [] content = "<a> <b> \"x\\u007By\" ." ->
            [err |-> "", triples |-> <<[Subject |-> Ra, Predicate |-> Rb,
                                        Object |-> NewLiteral("x{y")]>>]
      [] content = "<a> <b> \"x\\u007Dy\" ." ->
            [err |-> "", triples |-> <<[Subject |-> Ra, Predicate |-> Rb,
                                        Object |-> NewLiteral("x}y")]>>]
      [] content = TurtleMulti -> [err |-> "", triples |-> <<Tabc, Tabx>>]
      [] content = GroupContinued -> [err |-> "", triples |-> <<Tabc, Tabx>>]
      [] OTHER -> [err |-> "turtle: syntax error", triples |-> <<>>]

\* jsonld.ReadJSON
ReadJSON(bytes) ==
    IF bytes \in {JsonGood, JsonBadExpand} THEN [err |-> ""]
    ELSE [err |-> "json: syntax error"]

\* jsonld.ToRDF followed by IterTriples
ToRDF(bytes) ==
    IF bytes = JsonGood THEN [err |-> "", triples |-> <<Tabc>>]
    ELSE [err |-> "jsonld: expansion error", triples |-> <<>>]

(***************************************************************************)
(* Parse.  A result is [err, heap, quads]: the error returned ("" is nil), *)
(* the allocations made and the map of the dataset afterwards.             *)
(***************************************************************************)
\* the loops of Parse over the triples of a parser: AddTriple for each
RECURSIVE AddTriples(_, _, _)
AddTriples(st, triples, i) ==
    IF i > Len(triples) THEN st
    ELSE AddTriples(DoAddTriple(st, triples[i].Subject, triples[i].Predicate,
                                triples[i].Object),
                    triples, i + 1)

\* the loop of processTripleLines: AddQuad with the current graph for each
RECURSIVE AddQuads(_, _, _, _)
AddQuads(st, triples, i, currentGraph) ==
    IF i > Len(triples) THEN st
    ELSE AddQuads(DoAddQuad(st, triples[i].Subject, triples[i].Predicate,
                            triples[i].Object, currentGraph),
                  triples, i + 1, currentGraph)

\* ParseTurtle adding the triples read before it looks at the error
ParseTurtleAddsFirst(st, source) ==
    LET parser == TurtleParser(source)
        st2 == AddTriples(st, parser.triples, 1)
    IN  [err |-> parser.err, heap |-> st2.heap, quads |-> st2.quads]

\* the Turtle branch of Parse
ParseTurtle(st, source) ==
    LET parser == TurtleParser(source)
    IN  IF parser.err # "" THEN [err |-> parser.err, heap |-> st.heap, quads |-> st.quads]
        ELSE LET st2 == AddTriples(st, parser.triples, 1)
             IN  [err |-> "", heap |-> st2.heap, quads |-> st2.quads]

\* ParseJSONLD inserting the triples into the graph named by options.Base
ParseJSONLDIntoBaseGraph(st, source) ==
    LET jsonData == ReadJSON(source)
        dataSet == ToRDF(source)
    IN  IF jsonData.err # "" THEN [err |-> jsonData.err, heap |-> st.heap, quads |-> st.quads]
        ELSE IF dataSet.err # ""
             THEN [err |-> dataSet.err, heap |-> st.heap, quads |-> st.quads]
        ELSE LET st2 == AddQuads(st, dataSet.triples, 1, NewResource(""))
             IN  [err |-> "", heap |-> st2.heap, quads |-> st2.quads]

\* the JSON-LD branch of Parse
ParseJSONLD(st, source) ==
    LET jsonData == ReadJSON(source)
        dataSet == ToRDF(source)
    IN  IF jsonData.err # "" THEN [err |-> jsonData.err, heap |-> st.heap, quads |-> st.quads]
        ELSE IF dataSet.err # ""
             THEN [err |-> dataSet.err, heap |-> st.heap, quads |-> st.quads]
        ELSE LET st2 == AddTriples(st, dataSet.triples, 1)
             IN  [err |-> "", heap |-> st2.heap, quads |-> st2.quads]

\* processTripleLines adding the triples read before it looks at the error
processTripleLinesKeepsPartial(st, lines, currentGraph) ==
    LET parser == TurtleParser(Join(lines, "\n"))
    IN  AddQuads(st, parser.triples, 1, currentGraph)

\* processTripleLines
processTripleLines(st, lines, currentGraph) ==
    LET parser == TurtleParser(Join(lines, "\n"))
    IN  IF parser.err # "" THEN st
        ELSE AddQuads(st, parser.triples, 1, currentGraph)

\* parseGraphName leaving the angle brackets in the IRI
parseGraphNameKeepsBrackets(graphStr) ==
    NewResource(TrimSpace(graphStr))

\* parseGraphName
parseGraphName(graphStr) ==
    LET str == TrimSpace(graphStr)
    IN  IF HasPrefix(str, "<") /\ HasSuffix(str, ">")
        THEN NewResource(SubSeq(str, 2, Len(str) - 1))
        ELSE NewResource(str)

\* the state of the loop of parseTrig before its first line: the dataset as
\* st, the locals currentGraph and currentTripleLines, and calls, the
\* arguments of the calls of processTripleLines made so far
ParseTrigStart(st) ==
    [st |-> st, currentGraph |-> Nil, currentTripleLines |-> <<>>, calls |-> <<>>]

\* d.processTripleLines(lines, currentGraph) as parseTrig calls it
CallProcessTripleLines(ts, lines) ==
    [ts EXCEPT !.st = processTripleLines(ts.st, lines, ts.currentGraph),
               !.calls = Append(@, [lines |-> lines, currentGraph |-> ts.currentGraph])]

\* the body of the loop of parseTrig for one line, on
\* ts = [st, currentGraph, currentTripleLines, calls]
ParseTrigLine(ts, rawLine) ==
    LET line == TrimSpace(rawLine)
    IN  IF line = "" \/ HasPrefix(line, "#") THEN ts
        ELSE IF HasPrefix(line, "@prefix") THEN ts
        ELSE IF Contains(line, "{")
             THEN LET graphPart == TrimSpace(Split(line, "{")[1])
                  IN  [ts EXCEPT !.currentGraph =
                          IF graphPart = "" THEN Nil ELSE parseGraphName(graphPart)]
        ELSE IF Contains(line, "}")
             THEN LET flushed == IF Len(ts.currentTripleLines) > 0
                                 THEN CallProcessTripleLines(ts, ts.currentTripleLines)
                                 ELSE ts
                  IN  [flushed EXCEPT !.currentGraph = Nil, !.currentTripleLines = <<>>]
        ELSE LET collected == Append(ts.currentTripleLines, line)
             IN  IF HasSuffix(line, ".")
                 THEN [CallProcessTripleLines(ts, collected)
                          EXCEPT !.currentTripleLines = <<>>]
                 ELSE [ts EXCEPT !.currentTripleLines = collected]

\* the loop of parseTrig over the lines, from position i
RECURSIVE ParseTrigLoop(_, _, _)
ParseTrigLoop(ts, lines, i) ==
    IF i > Len(lines) THEN ts
    ELSE ParseTrigLoop(ParseTrigLine(ts, lines[i]), lines, i + 1)

\* parseTrig after the loop: the lines still collected are processed
ParseTrigRest(ts) ==
    IF Len(ts.currentTripleLines) > 0
    THEN CallProcessTripleLines(ts, ts.currentTripleLines)
    ELSE ts

\* parseTrig
parseTrig(st, source) ==
    LET ts == ParseTrigRest(ParseTrigLoop(ParseTrigStart(st), Split(source, "\n"), 1))
    IN  [err |-> "", heap |-> ts.st.heap, quads |-> ts.st.quads]

\* Dataset.Parse
Parse(st, source, mime) ==
    LET name == MapGet(mimeParser, mime)
        parserName == IF Len(name) = 0 THEN "guess" ELSE name
    IN  IF parserName = "trig" THEN parseTrig(st, source)
        ELSE IF parserName = "jsonld" THEN ParseJSONLD(st, source)
        ELSE IF parserName = "turtle" THEN ParseTurtle(st, source)
        ELSE [err |-> parserName \o " is not supported by the parser",
              heap |-> st.heap, quads |-> st.quads]

CallParse(d, source, mime) ==
    LET r == Parse(StoreOf(d), source, mime) IN
    /\ last = Idle
    /\ Cardinality(r.heap) <= MaxQuads
    /\ heap' = r.heap
    /\ quads' = [quads EXCEPT ![d] = r.quads]
    /\ last' = [op |-> "Parse", d |-> d, mime |-> mime, source |-> source,
                err |-> r.err, pre |-> quads[d]]
    /\ UNCHANGED <<iter, base>>

(***************************************************************************)
(* Serialize.  What is written to w is a string for the N-Quads and TriG   *)
(* writers and, for the JSON-LD writer, the value handed to the JSON       *)
(* encoder.                                                                *)
(***************************************************************************)
\* Quad.String taking the branch of an absent graph term for every quad
QuadStringNoGraph(quad) ==
    LET subjStr == IF quad.Subject # Nil THEN TermString(quad.Subject) ELSE "nil"
        predStr == IF quad.Predicate # Nil THEN TermString(quad.Predicate) ELSE "nil"
        objStr == IF quad.Object # Nil THEN TermString(quad.Object) ELSE "nil"
    IN  subjStr \o " " \o predStr \o " " \o objStr \o " ."

\* Quad.String
QuadString(quad) ==
    LET subjStr == IF quad.Subject # Nil THEN TermString(quad.Subject) ELSE "nil"
        predStr == IF quad.Predicate # Nil THEN TermString(quad.Predicate) ELSE "nil"
        objStr == IF quad.Object # Nil THEN TermString(quad.Object) ELSE "nil"
    IN  IF quad.Graph # Nil
        THEN subjStr \o " " \o predStr \o " " \o objStr \o " " \o TermString(quad.Graph) \o " ."
        ELSE subjStr \o " " \o predStr \o " " \o objStr \o " ."

\* the loop of serializeNQuads over the channel ch, from position i
RECURSIVE NQuadsLoop(_, _)
NQuadsLoop(ch, i) ==
    IF i > Len(ch) THEN ""
    ELSE QuadString(ch[i].val) \o "\n" \o NQuadsLoop(ch, i + 1)

\* serializeNQuads: what it may write
serializeNQuads(d) == {NQuadsLoop(ch, 1) : ch \in IterQuads(d)}

\* the loop of Dataset.String over the channel ch, from position i
RECURSIVE StringLoop(_, _, _)
StringLoop(toString, ch, i) ==
    IF i > Len(ch) THEN toString
    ELSE StringLoop(toString \o QuadString(ch[i].val) \o "\n", ch, i + 1)

\* Dataset.String: what it may return
DatasetString(d) == {StringLoop("", ch, 1) : ch \in IterQuads(d)}

CallString(d) ==
    /\ last = Idle
    /\ \E out \in DatasetString(d) : last' = [op |-> "String", d |-> d, out |-> out]
    /\ UNCHANGED <<heap, quads, iter, base>>

\* encodeTerm: the canonical encoding of a term
encodeTerm(term) == TermString(term)

\* the first loop of serializeTrig, on gs = [graphQuads, defaultGraphQuads]
RECURSIVE TrigGroupLoop(_, _, _)
TrigGroupLoop(gs, ch, i) ==
    IF i > Len(ch) THEN gs
    ELSE IF ch[i].val.Graph = Nil
         THEN TrigGroupLoop([gs EXCEPT !.defaultGraphQuads = Append(@, ch[i])], ch, i + 1)
         ELSE LET graphName == TermString(ch[i].val.Graph)
                  sofar == IF graphName \in DOMAIN gs.graphQuads
                           THEN gs.graphQuads[graphName] ELSE <<>>
              IN  TrigGroupLoop([gs EXCEPT !.graphQuads =
                                    MapPut(@, graphName, Append(sofar, ch[i]))],
                                ch, i + 1)

\* the lines of one block of serializeTrig
RECURSIVE TrigLines(_, _)
TrigLines(qs, i) ==
    IF i > Len(qs) THEN ""
    ELSE "  " \o encodeTerm(qs[i].val.Subject) \o " " \o encodeTerm(qs[i].val.Predicate)
              \o " " \o encodeTerm(qs[i].val.Object) \o " .\n" \o TrigLines(qs, i + 1)

\* the second loop of serializeTrig: the named graphs in the order names
RECURSIVE TrigNamedLoop(_, _, _)
TrigNamedLoop(graphQuads, names, i) ==
    IF i > Len(names) THEN ""
    ELSE "\n" \o names[i] \o " {\n" \o TrigLines(graphQuads[names[i]], 1) \o "}\n"
              \o TrigNamedLoop(graphQuads, names, i + 1)

\* TrigText writing the block of the default graph whether or not it has quads
TrigTextAlwaysDefault(gs, names) ==
    "{\n" \o TrigLines(gs.defaultGraphQuads, 1) \o "}\n"
    \o TrigNamedLoop(gs.graphQuads, names, 1)

\* what serializeTrig writes for one order of the channel and of the map
TrigText(gs, names) ==
    (IF Len(gs.defaultGraphQuads) > 0
     THEN "{\n" \o TrigLines(gs.defaultGraphQuads, 1) \o "}\n"
     ELSE "")
    \o TrigNamedLoop(gs.graphQuads, names, 1)

\* serializeTrig: what it may write
serializeTrig(d) ==
    UNION {LET gs == TrigGroupLoop([graphQuads |-> EmptyMap, defaultGraphQuads |-> <<>>], ch, 1)
           IN  {TrigText(gs, names) : names \in Orderings(DOMAIN gs.graphQuads)}
           : ch \in IterQuads(d)}

\* JSON values: a string, an object (a map with string keys), an array
JString(str) == [json |-> "string", str |-> str]
JObject(fields) == [json |-> "object", fields |-> fields]
JArray(items) == [json |-> "array", items |-> items]

\* termToJSONLDID
termToJSONLDID(term) ==
    CASE term.kind = "Resource" -> term.URI
      [] term.kind = "BlankNode" -> "_:" \o term.ID
      [] OTHER -> TermString(term)

\* termToJSONLDValue
termToJSONLDValue(term) ==
    CASE term.kind = "Resource" -> JObject(MapPut(EmptyMap, "@id", JString(term.URI)))
      [] term.kind = "BlankNode" -> JObject(MapPut(EmptyMap, "@id", JString("_:" \o term.ID)))
      [] term.kind = "Literal" ->
            LET r1 == MapPut(EmptyMap, "@value", JString(term.Value))
                r2 == IF Len(term.Language) > 0
                      THEN MapPut(r1, "@language", JString(term.Language)) ELSE r1
                r3 == IF term.Datatype # Nil
                      THEN MapPut(r2, "@type", JString(termToJSONLDID(term.Datatype))) ELSE r2
            IN  JObject(r3)
      [] OTHER -> JString(TermString(term))

\* Graph.IterTriples: the triples of a graph, in any order
IterTriples(graph) == Orderings(graph)

\* the loop of serializeJSONLD over the triples of one graph, building
\* subjectMap
RECURSIVE SubjectMapLoop(_, _, _)
SubjectMapLoop(subjectMap, triples, i) ==
    IF i > Len(triples) THEN subjectMap
    ELSE LET subjectID == termToJSONLDID(triples[i].Subject)
             predicateID == termToJSONLDID(triples[i].Predicate)
             objectValue == termToJSONLDValue(triples[i].Object)
             subjectData == IF subjectID \in DOMAIN subjectMap THEN subjectMap[subjectID]
                            ELSE MapPut(EmptyMap, "@id", JString(subjectID))
             value == IF predicateID \in DOMAIN subjectData
                      THEN IF subjectData[predicateID].json = "array"
                           THEN JArray(Append(subjectData[predicateID].items, objectValue))
                           ELSE JArray(<<subjectData[predicateID], objectValue>>)
                      ELSE objectValue
         IN  SubjectMapLoop(MapPut(subjectMap, subjectID, MapPut(subjectData, predicateID, value)),
                            triples, i + 1)

\* the subject objects of one graph, as the array serializeJSONLD may build
SubjectArrays(graph) ==
    UNION {LET subjectMap == SubjectMapLoop(EmptyMap, triples, 1)
           IN  {JArray([i \in 1..Len(ks) |-> JObject(subjectMap[ks[i]])]) :
                   ks \in Orderings(DOMAIN subjectMap)}
           : triples \in IterTriples(graph)}

\* the default-graph part of serializeJSONLD: the results it may leave
JSONLDDefault(d) ==
    UNION {IF GraphLen(defaultGraph) > 0
           THEN {MapPut(EmptyMap, "@graph", arr) : arr \in SubjectArrays(defaultGraph)}
           ELSE {EmptyMap}
           : defaultGraph \in GetDefaultGraph(d)}

\* the loop of serializeJSONLD over the named graphs, from position i, on
\* the set of results the steps before may have left
RECURSIVE JSONLDNamedLoop(_, _, _, _)
JSONLDNamedLoop(results, d, namedGraphs, i) ==
    IF i > Len(namedGraphs) THEN results
    ELSE LET graphNameID == termToJSONLDID(namedGraphs[i])
             step(result) ==
                 UNION {IF GraphLen(graph) > 0
                        THEN {MapPut(result, graphNameID,
                                     JObject(MapPut(EmptyMap, "@graph", arr))) :
                                 arr \in SubjectArrays(graph)}
                        ELSE {result}
                        : graph \in GetGraph(d, namedGraphs[i])}
         IN  JSONLDNamedLoop(UNION {step(result) : result \in results}, d, namedGraphs, i + 1)

\* serializeJSONLD: the values it may hand to the encoder
serializeJSONLD(d) ==
    UNION {JSONLDNamedLoop(JSONLDDefault(d), d, namedGraphs, 1) :
              namedGraphs \in GetNamedGraphs(d)}

\* Dataset.Serialize: what it may return, [err, written, out]: the error
\* ("" is nil), the writer that ran and what it wrote
Serialize(d, mime) ==
    LET serializerName == MapGet(mimeSerializer, mime)
    IN  IF serializerName = "trig"
        THEN {[err |-> "", written |-> "trig", out |-> text] : text \in serializeTrig(d)}
        ELSE IF serializerName = "jsonld"
        THEN {[err |-> "", written |-> "jsonld", out |-> JObject(result)] :
                 result \in serializeJSONLD(d)}
        ELSE {[err |-> "", written |-> "nquads", out |-> text] : text \in serializeNQuads(d)}

CallSerialize(d, mime) ==
    /\ last = Idle
    /\ \E r \in Serialize(d, mime) :
          last' = [op |-> "Serialize", d |-> d, mime |-> mime,
                   err |-> r.err, written |-> r.written, out |-> r.out]
    /\ UNCHANGED <<heap, quads, iter, base>>

(***************************************************************************)
(* The specification of the formats: a dataset holding any quads that      *)
(* insertions and removals can leave in it, on which one Parse or one      *)
(* Serialize is made.                                                      *)
(***************************************************************************)
NextFormat ==
    \/ \E source \in Sources, mime \in Mimes : CallParse(1, source, mime)
    \/ \E mime \in Mimes : CallSerialize(1, mime)
    \/ CallString(1)

SpecFormat == InitQuery /\ [][NextFormat]_vars

(***************************************************************************)
(* The specification of a conversion: a document is parsed into the empty  *)
(* dataset 1, dataset 1 is serialized, and what was written is parsed into *)
(* the empty dataset 2.                                                    *)
(***************************************************************************)
Documents ==
    Sources \cup {TrigBrace, TrigCloseBrace, TrigBlankGraph, TurtleMulti}

\* Dataset.Serialize on the dataset a document was parsed into; the record
\* keeps the document and the format it was parsed as
SerializeParsed(d, mime) ==
    /\ last.op = "Parse"
    /\ last.d = d
    /\ "from" \notin DOMAIN last
    /\ \E r \in Serialize(d, mime) :
          last' = [op |-> "Serialize", d |-> d, mime |-> mime,
                   err |-> r.err, written |-> r.written, out |-> r.out,
                   source |-> last.source, parsedAs |-> last.mime]
    /\ UNCHANGED <<heap, quads, iter, base>>

\* Dataset.Parse of the text a Serialize call wrote, on another dataset; the
\* record keeps the dataset the text was written from, the document that
\* dataset was parsed from and the formats
ParseSerialized(d, mime) ==
    /\ last.op = "Serialize"
    /\ "source" \in DOMAIN last
    /\ last.d # d
    /\ last.written # "jsonld"
    /\ LET r == Parse(StoreOf(d), last.out, mime)
       IN  /\ heap' = r.heap
           /\ quads' = [quads EXCEPT ![d] = r.quads]
           /\ last' = [op |-> "Parse", d |-> d, mime |-> mime, source |-> last.out,
                       err |-> r.err, pre |-> quads[d],
                       from |-> last.d, written |-> last.written,
                       document |-> last.source, parsedAs |-> last.parsedAs]
    /\ UNCHANGED <<iter, base>>

NextConversion ==
    \/ \E source \in Documents, mime \in Mimes : CallParse(1, source, mime)
    \/ \E mime \in Mimes : SerializeParsed(1, mime)
    \/ ParseSerialized(2, "application/trig")

SpecConversion == Init /\ [][NextConversion]_vars

(***************************************************************************)
(* The specification of the encodings: a dataset holding quads whose terms *)
(* are resources, blank nodes and literals of every shape, on which one    *)
(* Serialize is made.                                                      *)
(***************************************************************************)
Bs == NewBlankNode("s")
Rs == NewResource("_:s")
Bg == NewBlankNode("g")
Rbg == NewResource("_:g")
Bo == NewBlankNode("o")
LitLang == Literal("v", "en", Nil)

EncodeValues ==
    {QuadValue(Bs, Rb, Rc, Nil), QuadValue(Rs, Rb, Rc, Nil),
     QuadValue(Ra, Rb, Rc, Bg), QuadValue(Rx, Rb, Rc, Rbg),
     QuadValue(Ra, Rb, Lc, Nil), QuadValue(Ra, Rb, LitLang, Nil),
     QuadValue(Ra, Rb, LitDt, Nil), QuadValue(Ra, Rb, LitLangDt, Nil),
     QuadValue(Ra, Rb, Bo, Nil)}

InitEncode ==
    /\ \E n \in 0..MaxQuads : \E vs \in [1..n -> EncodeValues] : heap = HeapOf(vs)
    /\ quads = [d \in Datasets |-> IF d = 1 THEN heap ELSE {}]
    /\ last = Idle
    /\ iter = NoIter
    /\ base = [d \in Datasets |-> NewDataset(testDatasetUri)]

NextEncode == \E mime \in Mimes : CallSerialize(1, mime)

SpecEncode == InitEncode /\ [][NextEncode]_vars

(***************************************************************************)
(* The specification of quad equality: a caller builds two quads from      *)
(* terms of every variant and compares them.                               *)
(***************************************************************************)
Ba == NewBlankNode("a")

EqualSubjects == {Ra, Ba}
EqualObjects == {Rc, Lc, LitDt, LitLangDt}
EqualGraphs == {Nil, Rg, Bg, LitDt}

EqualValues ==
    {QuadValue(s, Rb, o, g) : s \in EqualSubjects, o \in EqualObjects, g \in EqualGraphs}

\* quad.Equal(other), on two quads the caller built
CallEqual(quad, other) ==
    /\ last' = [op |-> "Equal", quad |-> quad, other |-> other,
                out |-> QuadEqual(quad, other)]
    /\ UNCHANGED <<heap, quads, iter, base>>

NextEqual == \E quad, other \in EqualValues : CallEqual(quad, other)

SpecEqual == Init /\ [][NextEqual]_vars

(***************************************************************************)
(* The specification of a TriG parse, one line of the loop of parseTrig at *)
(* a time.  While the call runs, last holds its position: the lines, the   *)
(* index i of the next line, the locals currentGraph and                   *)
(* currentTripleLines, the calls of processTripleLines made so far, as    *)
(* groupGraph the value of currentGraph when the first of the collected    *)
(* lines was collected, and, as prev and pre, the locals and the map       *)
(* before the last line.                                                   *)
(***************************************************************************)
LineKinds ==
    {"", "# c", "{", "<g> {", "}", "<g> { <a> <b> <c> . }",
     "  <a> <b> <c> .", "<a> <b> <c> ;", "<b> <x> ."}

\* the documents of up to MaxLines lines
TrigScripts == UNION {[1..n -> LineKinds] : n \in 1..MaxLines}

\* the locals of parseTrig held in a record r
LocalsOf(r) ==
    [currentGraph |-> r.currentGraph, currentTripleLines |-> r.currentTripleLines,
     ncalls |-> Len(r.calls)]

\* d.Parse(reader, "application/trig") up to the loop of parseTrig
BeginParseTrig(d, script) ==
    LET source == Join(script, "\n")
        ts == ParseTrigStart(StoreOf(d))
    IN  /\ last = Idle
        /\ last' = [op |-> "parseTrig", d |-> d, source |-> source,
                    lines |-> Split(source, "\n"), i |-> 1, done |-> FALSE,
                    currentGraph |-> ts.currentGraph,
                    currentTripleLines |-> ts.currentTripleLines,
                    calls |-> ts.calls, groupGraph |-> ts.currentGraph,
                    prev |-> LocalsOf(ts), pre |-> quads[d]]
        /\ UNCHANGED <<heap, quads, iter, base>>

\* the state of the loop held in last and in the dataset
LoopState ==
    [st |-> StoreOf(last.d), currentGraph |-> last.currentGraph,
     currentTripleLines |-> last.currentTripleLines, calls |-> last.calls]

\* last after a part of parseTrig that leaves the loop in the state ts
Advance(ts, i, done) ==
    [last EXCEPT !.i = i, !.done = done,
                 !.currentGraph = ts.currentGraph,
                 !.currentTripleLines = ts.currentTripleLines,
                 !.calls = ts.calls,
                 !.groupGraph = IF last.currentTripleLines = <<>>
                                THEN last.currentGraph ELSE @,
                 !.prev = LocalsOf(last), !.pre = quads[last.d]]

\* one iteration of the loop of parseTrig
StepParseTrig ==
    /\ last.op = "parseTrig"
    /\ ~last.done
    /\ last.i <= Len(last.lines)
    /\ LET ts == ParseTrigLine(LoopState, last.lines[last.i])
       IN  /\ heap' = ts.st.heap
           /\ quads' = [quads EXCEPT ![last.d] = ts.st.quads]
           /\ last' = Advance(ts, last.i + 1, FALSE)
    /\ UNCHANGED <<iter, base>>

\* parseTrig after its loop, and its return
EndParseTrig ==
    /\ last.op = "parseTrig"
    /\ ~last.done
    /\ last.i > Len(last.lines)
    /\ LET ts == ParseTrigRest(LoopState)
       IN  /\ heap' = ts.st.heap
           /\ quads' = [quads EXCEPT ![last.d] = ts.st.quads]
           /\ last' = Advance(ts, last.i, TRUE)
    /\ UNCHANGED <<iter, base>>

NextTrig ==
    \/ \E script \in TrigScripts : BeginParseTrig(1, script)
    \/ StepParseTrig
    \/ EndParseTrig

SpecTrig == Init /\ [][NextTrig]_vars

(***************************************************************************)
(* The specification of the base IRI: dataset 1 is made with an empty or  *)
(* a non-empty base IRI, and LoadURI, AddQuad, Remove and Merge are called *)
(* on it.  What the HTTP client answers is an input of LoadURI.            *)
(***************************************************************************)
BaseURIs == {"", testDatasetUri}

DocURI == "https://example.org/doc"
\* a URI with a fragment, and one that url.Parse rejects
LoadURIs == {DocURI \o "#it", "%zz"}

\* defrag: the URI without its fragment
defrag(s) ==
    LET lst == Split(s, "#")
    IN  IF Len(lst) # 2 THEN s ELSE lst[1]

\* http.NewRequest("GET", doc, nil): the error of url.Parse
NewRequest(doc) ==
    IF doc = "%zz" THEN [err |-> "parse \"%zz\": invalid URL escape \"%zz\""]
    ELSE [err |-> ""]

\* what d.httpClient.Do may return: an error, or a response with a status,
\* a Content-Type and a body
Responses ==
    {[err |-> "transport error", StatusCode |-> 0, ContentType |-> "", Body |-> ""],
     [err |-> "", StatusCode |-> 404, ContentType |-> "text/html", Body |-> ""]}
    \cup {[err |-> "", StatusCode |-> 200, ContentType |-> mime, Body |-> TrigGood] :
              mime \in {"application/trig", "text/plain"}}

\* Dataset.LoadURI when the HTTP client answers r: [err, base, heap, quads],
\* the error returned and the fields of the dataset afterwards
DoLoadURI(d, uri, r) ==
    LET doc == defrag(uri)
        q == NewRequest(doc)
        set == IF Len(base[d].uri) = 0 THEN [base[d] EXCEPT !.uri = doc] ELSE base[d]
    IN  IF q.err # ""
        THEN [err |-> q.err, base |-> base[d], heap |-> heap, quads |-> quads[d]]
        ELSE IF r.err # ""
        THEN [err |-> r.err, base |-> set, heap |-> heap, quads |-> quads[d]]
        ELSE IF r.StatusCode = 200
        THEN LET parsed == Parse(StoreOf(d), r.Body, r.ContentType)
             IN  [err |-> "", base |-> set, heap |-> parsed.heap, quads |-> parsed.quads]
        ELSE [err |-> "Could not fetch dataset from " \o uri,
              base |-> set, heap |-> heap, quads |-> quads[d]]

\* Dataset.LoadURI
LoadURI(d, uri, r) ==
    LET res == DoLoadURI(d, uri, r) IN
    /\ Cardinality(res.heap) <= MaxQuads
    /\ heap' = res.heap
    /\ quads' = [quads EXCEPT ![d] = res.quads]
    /\ base' = [base EXCEPT ![d] = res.base]
    /\ last' = [op |-> "LoadURI", d |-> d, uri |-> uri, err |-> res.err,
                uri0 |-> base[d].uri]
    /\ UNCHANGED iter

\* dataset 1 is made by NewDataset with any of the base IRIs
InitLoad ==
    /\ heap = {}
    /\ quads = [d \in Datasets |-> {}]
    /\ iter = NoIter
    /\ \E u \in BaseURIs :
          /\ base = [d \in Datasets |->
                        IF d = 1 THEN NewDataset(u) ELSE NewDataset(testDatasetUri)]
          /\ last = [op |-> "NewDataset", d |-> 1, uri |-> u]

NextLoad ==
    \/ \E uri \in LoadURIs, r \in Responses : LoadURI(1, uri, r)
    \/ \E v \in StoreValues : AddQuad(1, v.Subject, v.Predicate, v.Object, v.Graph)
    \/ \E q \in heap : Remove(1, q)
    \/ \E d \in Datasets : Merge(d, 1)

SpecLoad == InitLoad /\ [][NextLoad]_vars

(***************************************************************************)
(* The specification of the read operations: a dataset holding any quads  *)
(* that insertions and removals can leave in it, on which one of the       *)
(* accessors, queries, projections or writers is called, or which is       *)
(* merged into a dataset; a Graph that GetGraph returned may then be added *)
(* to.                                                                     *)
(***************************************************************************)
InitRead ==
    /\ \E n \in 0..MaxQuads : \E vs \in [1..n -> StoreValues] : heap = HeapOf(vs)
    /\ \E stored \in SUBSET heap : quads = [d \in Datasets |-> IF d = 1 THEN stored ELSE {}]
    /\ last = Idle
    /\ iter = NoIter
    /\ base = [d \in Datasets |-> NewDataset(testDatasetUri)]

CallLen(d) ==
    /\ last = Idle
    /\ last' = [op |-> "Len", d |-> d, res |-> DatasetLen(d)]
    /\ UNCHANGED <<heap, quads, iter, base>>

CallURI(d) ==
    /\ last = Idle
    /\ last' = [op |-> "URI", d |-> d, res |-> DatasetURI(d)]
    /\ UNCHANGED <<heap, quads, iter, base>>

CallTerm(d) ==
    /\ last = Idle
    /\ last' = [op |-> "Term", d |-> d, res |-> DatasetTerm(d)]
    /\ UNCHANGED <<heap, quads, iter, base>>

\* the triples a caller adds to a Graph
GraphTriples == {Tabc, Txbc}

\* Graph.Add on the Graph the last GetGraph or GetDefaultGraph returned
CallGraphAdd(t) ==
    /\ last.op \in {"GetGraph", "GetDefaultGraph"}
    /\ last' = [op |-> "Graph.Add", d |-> last.d, g |-> last.g, t |-> t,
                res0 |-> last.res, res |-> GraphAdd(last.res, t)]
    /\ UNCHANGED <<heap, quads, iter, base>>

NextRead ==
    \/ CallLen(1)
    \/ CallURI(1)
    \/ CallTerm(1)
    \/ \E s \in PatternSubjects, p \in PatternPredicates, o \in PatternObjects, g \in Graphs :
          CallOne(1, s, p, o, g)
    \/ \E s \in PatternSubjects, p \in PatternPredicates, o \in PatternObjects, g \in Graphs :
          CallAll(1, s, p, o, g)
    \/ \E g \in Graphs : CallGetGraph(1, g)
    \/ CallGetDefaultGraph(1)
    \/ CallGetNamedGraphs(1)
    \/ CallString(1)
    \/ \E mime \in Mimes : CallSerialize(1, mime)
    \/ \E d \in Datasets : Merge(d, 1)
    \/ \E t \in GraphTriples : CallGraphAdd(t)

SpecRead == InitRead /\ [][NextRead]_vars

(***************************************************************************)
(* The matching rule of a quad pattern, as the contract states it: an      *)
(* absent s, p or o matches any term; an absent g matches only an absent   *)
(* graph term, a present g only an equal graph term.                       *)
(***************************************************************************)
GraphMatches(quad, g) ==
    IF g = Nil THEN quad.Graph = Nil
    ELSE quad.Graph # Nil /\ TermEqual(quad.Graph, g)

PatternMatches(quad, s, p, o, g) ==
    /\ s = Nil \/ TermEqual(quad.Subject, s)
    /\ p = Nil \/ TermEqual(quad.Predicate, p)
    /\ o = Nil \/ TermEqual(quad.Object, o)
    /\ GraphMatches(quad, g)

\* the elements of a sequence
Range(f) == {f[i] : i \in DOMAIN f}

\* the number of classes of value-equal quads (Quad.Equal) in a set of quads
ValueCount(S) == Cardinality({{r \in S : QuadEqual(r.val, q.val)} : q \in S})

(***************************************************************************)
(* C1.  No two stored quads are value-equal: a quad that is value-equal to *)
(* a stored one, even when constructed separately, is not stored a second  *)
(* time, so Len() counts quad values.                                      *)
(***************************************************************************)
C1_NoTwoStoredQuadsValueEqual ==
    \A d \in Datasets : \A q1, q2 \in quads[d] :
        QuadEqual(q1.val, q2.val) => q1 = q2

(***************************************************************************)
(* C2.  Add(q) followed by Remove(q') restores Len() to its value before   *)
(* the Add, for every q' that is value-equal to q.                         *)
(***************************************************************************)
C2_AddThenRemoveRestoresLen ==
    (/\ last.op = "Remove"
     /\ last.added # NilQuad
     /\ QuadEqual(last.q.val, last.added.val))
        => DatasetLen(last.d) = last.len0

(***************************************************************************)
(* C3.  After d1.Merge(d2), d1.Len() is the size of the value-deduplicated *)
(* union of what d1 held before and the quads of d2, and every quad of d2  *)
(* is in d1.                                                               *)
(***************************************************************************)
C3_MergeLenIsDedupUnion ==
    last.op = "Merge" =>
        /\ DatasetLen(last.d) = ValueCount(last.pre[last.d] \cup last.pre[last.from])
        /\ \A q \in last.pre[last.from] :
              \E r \in quads[last.d] : QuadEqual(r.val, q.val)

(***************************************************************************)
(* C4.  The absent graph is a class of its own, not a wildcard, in One and *)
(* All: with g absent only quads with an absent graph term are returned,   *)
(* with a present g only quads whose graph term equals g; a default-graph  *)
(* quad (s,p,o) is found by One(s,p,o,absent).                             *)
(***************************************************************************)
C4_AbsentGraphIsNotWildcard ==
    /\ (last.op = "One" /\ last.res # NilQuad) => GraphMatches(last.res.val, last.g)
    /\ last.op = "All" => \A q \in Range(last.res) : GraphMatches(q.val, last.g)
    /\ (/\ last.op = "One"
        /\ last.g = Nil
        /\ \E q \in quads[last.d] :
              q.val = QuadValue(last.s, last.p, last.o, Nil))
          => last.res # NilQuad

\* One(s,p,o,absent) found nothing although (s,p,o) is stored in a named graph
C4_Witness ==
    /\ last.op = "One"
    /\ last.g = Nil
    /\ last.res = NilQuad
    /\ \E q \in quads[last.d] :
          /\ q.val.Graph # Nil
          /\ ToTriple(q.val) = [Subject |-> last.s, Predicate |-> last.p, Object |-> last.o]

(***************************************************************************)
(* C5.  One returns nil if and only if no stored quad matches the pattern; *)
(* otherwise the quad it returns is stored and matches the pattern.        *)
(***************************************************************************)
C5_OneNilIffNoMatch ==
    last.op = "One" =>
        /\ last.res = NilQuad <=>
             ~\E q \in quads[last.d] : PatternMatches(q.val, last.s, last.p, last.o, last.g)
        /\ last.res # NilQuad =>
             /\ last.res \in quads[last.d]
             /\ PatternMatches(last.res.val, last.s, last.p, last.o, last.g)

\* One returned a quad for a pattern with a wildcard, from a store that also
\* holds a quad the pattern does not match and a quad that is not stored
C5_Witness ==
    /\ last.op = "One"
    /\ last.res # NilQuad
    /\ last.s = Nil
    /\ \E q \in quads[last.d] : ~PatternMatches(q.val, last.s, last.p, last.o, last.g)
    /\ heap # quads[last.d]

(***************************************************************************)
(* C6.  All returns exactly the stored quads that match the pattern, each  *)
(* once, and nothing when none matches.                                    *)
(***************************************************************************)
C6_AllExactlyTheMatches ==
    last.op = "All" =>
        LET matching == {q \in quads[last.d] :
                            PatternMatches(q.val, last.s, last.p, last.o, last.g)}
        IN  /\ Range(last.res) = matching
            /\ Len(last.res) = Cardinality(matching)

\* All returned two quads and left out a stored quad that does not match
C6_Witness ==
    /\ last.op = "All"
    /\ Len(last.res) = 2
    /\ \E q \in quads[last.d] : q \notin Range(last.res)

(***************************************************************************)
(* C7.  GetGraph(g) holds exactly the triples of the stored quads whose    *)
(* graph term equals g, GetDefaultGraph() those of the quads with an       *)
(* absent graph term; no triple of a quad of another graph is in the view  *)
(* unless a quad of the graph asked for has it too.                        *)
(***************************************************************************)
C7_GetGraphExactlyTheGraph ==
    last.op \in {"GetGraph", "GetDefaultGraph"} =>
        LET g == IF last.op = "GetDefaultGraph" THEN Nil ELSE last.g
            members == {q \in quads[last.d] : GraphMatches(q.val, g)}
        IN  /\ \A q \in members : \E t \in last.res : TripleEqual(t, ToTriple(q.val))
            /\ \A t \in last.res : \E q \in members : TripleEqual(t, ToTriple(q.val))

\* two quads in the graph g and one in the default graph: GetGraph(g) has
\* two triples
C7_Witness ==
    /\ last.op = "GetGraph"
    /\ last.g = Rg
    /\ GraphLen(last.res) = 2
    /\ Cardinality({q \in quads[last.d] : q.val.Graph = Nil}) = 1
    /\ Cardinality(quads[last.d]) = 3

(***************************************************************************)
(* C8.  GetNamedGraphs returns exactly the distinct present graph terms of *)
(* the stored quads: every graph term of a stored quad is equal to exactly *)
(* one returned term, every returned term is the graph term of a stored    *)
(* quad, and no two returned terms are equal.                              *)
(***************************************************************************)
C8_NamedGraphsExactlyTheGraphTerms ==
    last.op = "GetNamedGraphs" =>
        /\ \A q \in quads[last.d] :
              q.val.Graph # Nil =>
                Cardinality({i \in DOMAIN last.res : TermEqual(q.val.Graph, last.res[i])}) = 1
        /\ \A i \in DOMAIN last.res :
              /\ last.res[i] # Nil
              /\ \E q \in quads[last.d] :
                    q.val.Graph # Nil /\ TermEqual(q.val.Graph, last.res[i])

(***************************************************************************)
(* C9.  Parse and Serialize called with a format identifier that has no    *)
(* registered parser / serializer return an error and do not fall back to  *)
(* another format: Parse inserts nothing, Serialize writes nothing.        *)
(***************************************************************************)
C9_UnsupportedFormatIsAnError ==
    /\ (last.op = "Parse" /\ last.mime \notin DOMAIN mimeParser) =>
          last.err # "" /\ quads[last.d] = last.pre
    /\ (last.op = "Serialize" /\ last.mime \notin DOMAIN mimeSerializer) =>
          last.err # "" /\ last.out = ""

(***************************************************************************)
(* C10.  For Turtle and JSON-LD input, a failure of the grammar parser or  *)
(* of the expansion engine aborts the Parse call: that error is returned   *)
(* and the quads of the dataset are those it held before the call.         *)
(***************************************************************************)
C10_ParseFailureAborts ==
    last.op = "Parse" =>
        LET parserName == MapGet(mimeParser, last.mime)
            failure ==
                IF parserName = "turtle" THEN TurtleParser(last.source).err
                ELSE IF parserName = "jsonld"
                     THEN IF ReadJSON(last.source).err # "" THEN ReadJSON(last.source).err
                          ELSE ToRDF(last.source).err
                ELSE ""
        IN  failure # "" => last.err = failure /\ quads[last.d] = last.pre

\* a Turtle document that fails after its first triple, parsed into a
\* dataset that holds quads
C10_Witness ==
    /\ last.op = "Parse"
    /\ last.mime = "text/turtle"
    /\ last.source = TurtleBad
    /\ last.err # ""
    /\ last.pre # {}

(***************************************************************************)
(* The statement groups of the TriG documents, as the grammar of a TriG    *)
(* document gives them: the graph term of the block and the text of the    *)
(* statement, in document order.                                           *)
(***************************************************************************)
StatementGroups ==
    [doc \in {TrigGood, TrigDropped, TrigDroppedAtEnd} |->
        CASE doc = TrigGood ->
                <<[graph |-> Nil, text |-> "<a> <b> <c> ."],
                  [graph |-> Rg, text |-> "<x> <b> <c> ."]>>
          [] doc = TrigDropped ->
                <<[graph |-> Rg, text |-> GroupPartial],
                  [graph |-> Rg, text |-> "<x> <b> <c> ."]>>
          [] doc = TrigDroppedAtEnd ->
                <<[graph |-> Nil, text |-> "<x> <b>"],
                  [graph |-> Rg, text |-> "<a> <b> <c> ."]>>]

\* the quad values of the groups the Turtle parser accepts, from group i on
RECURSIVE AcceptedQuadValues(_, _)
AcceptedQuadValues(groups, i) ==
    IF i > Len(groups) THEN <<>>
    ELSE LET parser == TurtleParser(groups[i].text)
             these == IF parser.err # "" THEN <<>>
                      ELSE [j \in 1..Len(parser.triples) |->
                               QuadValue(parser.triples[j].Subject, parser.triples[j].Predicate,
                                         parser.triples[j].Object, groups[i].graph)]
         IN  these \o AcceptedQuadValues(groups, i + 1)

\* the number of times v occurs in a sequence
Count(seq, v) == Cardinality({i \in DOMAIN seq : seq[i] = v})

(***************************************************************************)
(* C11.  Parse of a TriG document returns success whether or not groups    *)
(* were dropped; a statement group the Turtle parser rejects adds no quad, *)
(* and every group it accepts, before or after a rejected one, adds its    *)
(* triples as quads of the graph of its block.                             *)
(***************************************************************************)
C11_TrigDropsRejectedGroupsOnly ==
    (/\ last.op = "Parse"
     /\ MapGet(mimeParser, last.mime) = "trig"
     /\ last.source \in DOMAIN StatementGroups) =>
        LET added == quads[last.d] \ last.pre
            expected == AcceptedQuadValues(StatementGroups[last.source], 1)
        IN  /\ last.err = ""
            /\ last.pre \subseteq quads[last.d]
            /\ Cardinality(added) = Len(expected)
            /\ \A v \in Range(expected) :
                  Cardinality({q \in added : q.val = v}) = Count(expected, v)

\* a document whose first group fails after a triple was read: only the
\* triple of the second group was added, to the graph of the block
C11_Witness ==
    /\ last.op = "Parse"
    /\ last.mime = "application/trig"
    /\ last.source = TrigDropped
    /\ last.err = ""
    /\ last.pre # {}
    /\ {q.val : q \in quads[last.d] \ last.pre} = {QuadValue(Rx, Rb, Rc, Rg)}

\* Dataset.GetNamedGraphs of a dataset whose map holds the keys m
NamedGraphsOfMap(m) == UNION {MapValues(GraphNamesLoop(EmptyMap, ch, 1)) : ch \in Orderings(m)}

(***************************************************************************)
(* C12.  A Parse call with the JSON-LD or the Turtle format adds no quad   *)
(* whose graph term is present, so GetNamedGraphs() after the call is what *)
(* it was before the call.                                                 *)
(***************************************************************************)
C12_ParseIntoDefaultGraphOnly ==
    (/\ last.op = "Parse"
     /\ MapGet(mimeParser, last.mime) \in {"jsonld", "turtle"}) =>
        /\ \A q \in quads[last.d] \ last.pre : q.val.Graph = Nil
        /\ GetNamedGraphs(last.d) = NamedGraphsOfMap(last.pre)

\* a JSON-LD document parsed into a dataset that has a named graph
C12_Witness ==
    /\ last.op = "Parse"
    /\ last.mime = "application/ld+json"
    /\ last.err = ""
    /\ quads[last.d] # last.pre
    /\ \E q \in last.pre : q.val.Graph # Nil

(***************************************************************************)
(* A reader of the block structure of a TriG text: the blocks in the order *)
(* they are written, each with its label ("" when it has none) and the     *)
(* lines between its braces.                                               *)
(***************************************************************************)
RECURSIVE ReadTrigBlocks(_, _, _)
ReadTrigBlocks(blocks, lines, i) ==
    IF i > Len(lines) THEN blocks
    ELSE LET line == lines[i]
         IN  IF line = "{"
             THEN ReadTrigBlocks(Append(blocks, [label |-> "", body |-> <<>>]), lines, i + 1)
             ELSE IF HasSuffix(line, " {")
             THEN ReadTrigBlocks(Append(blocks, [label |-> SubSeq(line, 1, Len(line) - 2),
                                                 body |-> <<>>]),
                                 lines, i + 1)
             ELSE IF line = "}" \/ line = ""
             THEN ReadTrigBlocks(blocks, lines, i + 1)
             ELSE IF Len(blocks) = 0
             THEN ReadTrigBlocks(<<[label |-> "(none)", body |-> <<line>>]>>, lines, i + 1)
             ELSE ReadTrigBlocks([blocks EXCEPT ![Len(blocks)].body = Append(@, line)],
                                 lines, i + 1)

TrigBlocks(text) == ReadTrigBlocks(<<>>, Split(text, "\n"), 1)

\* the label of the block of a quad: the canonical text of its graph term
BlockLabel(quad) == IF quad.Graph = Nil THEN "" ELSE TermString(quad.Graph)

\* the line of a quad in its block
TripleLine(quad) ==
    "  " \o TermString(quad.Subject) \o " " \o TermString(quad.Predicate) \o " "
         \o TermString(quad.Object) \o " ."

(***************************************************************************)
(* C13.  The TriG text partitions the stored quads by graph: the block     *)
(* without a label is written exactly when the default graph has quads,    *)
(* and first; every named graph has exactly one block labelled with its    *)
(* canonical text and there is no other block; no block is empty; every    *)
(* stored quad is one S P O . line of the block of its own graph, and the  *)
(* blocks have no other lines.                                             *)
(***************************************************************************)
C13_TrigPartitionsByGraph ==
    (last.op = "Serialize" /\ last.written = "trig") =>
        LET blocks == TrigBlocks(last.out)
            stored == quads[last.d]
            bucket(label) == {q \in stored : BlockLabel(q.val) = label}
        IN  /\ (\E q \in stored : q.val.Graph = Nil) <=>
                    (Len(blocks) > 0 /\ blocks[1].label = "")
            /\ \A i \in DOMAIN blocks : i > 1 => blocks[i].label # ""
            /\ {blocks[i].label : i \in DOMAIN blocks} = {BlockLabel(q.val) : q \in stored}
            /\ \A i, j \in DOMAIN blocks : blocks[i].label = blocks[j].label => i = j
            /\ \A i \in DOMAIN blocks :
                  /\ Len(blocks[i].body) > 0
                  /\ Len(blocks[i].body) = Cardinality(bucket(blocks[i].label))
                  /\ \A q \in bucket(blocks[i].label) :
                        Count(blocks[i].body, TripleLine(q.val)) =
                            Cardinality({r \in bucket(blocks[i].label) :
                                            TripleLine(r.val) = TripleLine(q.val)})

\* a default graph and two named graphs: three blocks, the first without label
C13_Witness ==
    /\ last.op = "Serialize"
    /\ last.written = "trig"
    /\ Cardinality({BlockLabel(q.val) : q \in quads[last.d]}) = 3
    /\ Len(TrigBlocks(last.out)) = 3
    /\ TrigBlocks(last.out)[1].label = ""

\* the triples of the quads of dataset d in the graph g
TriplesIn(d, g) == {ToTriple(q.val) : q \in {r \in quads[d] : GraphMatches(r.val, g)}}

(***************************************************************************)
(* C14.  TriG round trip: when dataset A was obtained by parsing a TriG    *)
(* document, and the TriG text written from A is parsed into the empty     *)
(* dataset B, then B.Len() = A.Len() and the default graph and every named *)
(* graph have the same triples in B as in A.                               *)
(***************************************************************************)
C14_TrigRoundTrip ==
    (/\ last.op = "Parse"
     /\ "from" \in DOMAIN last
     /\ MapGet(mimeParser, last.parsedAs) = "trig"
     /\ last.written = "trig"
     /\ MapGet(mimeParser, last.mime) = "trig") =>
        LET A == last.from
            B == last.d
            graphs == {Nil} \cup {q.val.Graph : q \in quads[A] \cup quads[B]}
        IN  /\ DatasetLen(B) = DatasetLen(A)
            /\ \A g \in graphs :
                  /\ \A t \in TriplesIn(A, g) : \E u \in TriplesIn(B, g) : TripleEqual(t, u)
                  /\ \A u \in TriplesIn(B, g) : \E t \in TriplesIn(A, g) : TripleEqual(t, u)

\* the subjects of the quads of dataset d in the graph g
SubjectsIn(d, g) == {q.val.Subject : q \in {r \in quads[d] : GraphMatches(r.val, g)}}

\* the predicates of the subject s in the graph g of dataset d
PredicatesIn(d, g, s) ==
    {q.val.Predicate :
        q \in {r \in quads[d] : GraphMatches(r.val, g) /\ TermEqual(r.val.Subject, s)}}

\* arr is the subject array of the graph g of dataset d: one object per
\* subject, with @id and one field per predicate of the subject
IsSubjectArrayOf(arr, d, g) ==
    /\ arr.json = "array"
    /\ Len(arr.items) = Cardinality(SubjectsIn(d, g))
    /\ \A s \in SubjectsIn(d, g) :
          \E k \in DOMAIN arr.items :
             /\ arr.items[k].fields["@id"] = JString(termToJSONLDID(s))
             /\ DOMAIN arr.items[k].fields =
                    {"@id"} \cup {termToJSONLDID(p) : p \in PredicatesIn(d, g, s)}

(***************************************************************************)
(* C15.  The JSON-LD value keeps graph membership: when the default graph  *)
(* has quads, the top-level @graph holds exactly one object per subject of *)
(* the default graph; every named graph that has quads has a top-level     *)
(* property keyed by its identifier whose @graph holds exactly one object  *)
(* per subject of that graph; each object has @id and one field per        *)
(* predicate of the subject in the graph.                                  *)
(***************************************************************************)
C15_JSONLDKeepsGraphMembership ==
    (last.op = "Serialize" /\ last.written = "jsonld") =>
        LET fields == last.out.fields
            named == {q.val.Graph : q \in quads[last.d]} \ {Nil}
        IN  /\ SubjectsIn(last.d, Nil) # {} =>
                  /\ "@graph" \in DOMAIN fields
                  /\ IsSubjectArrayOf(fields["@graph"], last.d, Nil)
            /\ \A g \in named :
                  /\ termToJSONLDID(g) \in DOMAIN fields
                  /\ fields[termToJSONLDID(g)].json = "object"
                  /\ "@graph" \in DOMAIN fields[termToJSONLDID(g)].fields
                  /\ IsSubjectArrayOf(fields[termToJSONLDID(g)].fields["@graph"], last.d, g)

\* the values of the predicate fields of the subject objects of an array
FieldValues(arr) ==
    UNION {UNION {IF f = "@id" THEN {}
                  ELSE IF item.fields[f].json = "array" THEN Range(item.fields[f].items)
                  ELSE {item.fields[f]}
                  : f \in DOMAIN item.fields}
           : item \in Range(arr.items)}

\* the values emitted for the objects of the triples in a JSON-LD value
EmittedValues(out) ==
    UNION {IF key = "@graph" THEN FieldValues(out.fields[key])
           ELSE FieldValues(out.fields[key].fields["@graph"])
           : key \in DOMAIN out.fields}

\* the encoding of a term as the object of a triple, as the contract states it
ObjectEncoding(term) ==
    CASE term.kind = "Resource" -> JObject(MapPut(EmptyMap, "@id", JString(term.URI)))
      [] term.kind = "BlankNode" -> JObject(MapPut(EmptyMap, "@id", JString("_:" \o term.ID)))
      [] term.kind = "Literal" ->
            JObject([k \in {"@value"}
                          \cup (IF term.Language # "" THEN {"@language"} ELSE {})
                          \cup (IF term.Datatype # Nil THEN {"@type"} ELSE {}) |->
                        CASE k = "@value" -> JString(term.Value)
                          [] k = "@language" -> JString(term.Language)
                          [] k = "@type" -> JString(term.Datatype.URI)])

\* the quad values in the order Parse inserts them into an empty dataset:
\* the order in which the parser of the format yields the triples
InsertionOrder(source, mime) ==
    LET name == MapGet(mimeParser, mime)
        InDefault(triples) ==
            [j \in 1..Len(triples) |->
                QuadValue(triples[j].Subject, triples[j].Predicate, triples[j].Object, Nil)]
    IN  IF name = "turtle"
        THEN IF TurtleParser(source).err # "" THEN <<>>
             ELSE InDefault(TurtleParser(source).triples)
        ELSE IF name = "jsonld"
        THEN IF ReadJSON(source).err # "" \/ ToRDF(source).err # "" THEN <<>>
             ELSE InDefault(ToRDF(source).triples)
        ELSE IF name = "trig" /\ source \in DOMAIN StatementGroups
        THEN AcceptedQuadValues(StatementGroups[source], 1)
        ELSE <<>>

\* a sequence without the repetitions of its elements
RECURSIVE FirstSeen(_)
FirstSeen(seq) ==
    IF Len(seq) = 0 THEN <<>>
    ELSE LET front == FirstSeen(SubSeq(seq, 1, Len(seq) - 1))
         IN  IF seq[Len(seq)] \in Range(front) THEN front ELSE Append(front, seq[Len(seq)])

(***************************************************************************)
(* C16.  In the JSON-LD value, the field of a predicate of a subject in a  *)
(* graph is a single value when the predicate occurs once there, and when  *)
(* it occurs n > 1 times a sequence of n values, one per triple, in the    *)
(* order in which the triples were inserted into the dataset.              *)
(***************************************************************************)
C16_MultiValueInsertionOrder ==
    (/\ last.op = "Serialize"
     /\ "source" \in DOMAIN last
     /\ last.written = "jsonld") =>
        LET order == InsertionOrder(last.source, last.parsedAs)
            fields == last.out.fields
        IN  \A i \in DOMAIN order :
               LET v == order[i]
                   Same(w) == /\ w.Graph = v.Graph
                              /\ w.Subject = v.Subject
                              /\ w.Predicate = v.Predicate
                   same == SelectSeq(order, Same)
                   objs == FirstSeen([j \in 1..Len(same) |-> same[j].Object])
                   expected == IF Len(objs) = 1 THEN ObjectEncoding(objs[1])
                               ELSE JArray([k \in 1..Len(objs) |-> ObjectEncoding(objs[k])])
                   key == IF v.Graph = Nil THEN "@graph" ELSE termToJSONLDID(v.Graph)
               IN  /\ key \in DOMAIN fields
                   /\ LET arr == IF v.Graph = Nil THEN fields[key]
                                 ELSE fields[key].fields["@graph"]
                      IN  \E k \in DOMAIN arr.items :
                             /\ arr.items[k].fields["@id"] = JString(termToJSONLDID(v.Subject))
                             /\ termToJSONLDID(v.Predicate) \in DOMAIN arr.items[k].fields
                             /\ arr.items[k].fields[termToJSONLDID(v.Predicate)] = expected

(***************************************************************************)
(* C17.  Every value emitted for an object in the JSON-LD value is the     *)
(* encoding of the object of a stored quad: @value, with @language when    *)
(* the literal has a language tag and @type when it has a datatype, for a  *)
(* literal, @id = URI for a resource, @id = _: and the id for a blank      *)
(* node; and no emitted value carries both @language and @type.            *)
(***************************************************************************)
C17_LiteralEncodingExclusive ==
    (last.op = "Serialize" /\ last.written = "jsonld") =>
        \A v \in EmittedValues(last.out) :
            /\ \E q \in quads[last.d] : v = ObjectEncoding(q.val.Object)
            /\ ~({"@language", "@type"} \subseteq DOMAIN v.fields)

\* the line of a quad in the flat format: S P O G . with the canonical
\* encodings, G left out when the graph term is absent
FlatLine(quad) ==
    TermString(quad.Subject) \o " " \o TermString(quad.Predicate) \o " "
        \o TermString(quad.Object)
        \o (IF quad.Graph = Nil THEN "" ELSE " " \o TermString(quad.Graph)) \o " ."

(***************************************************************************)
(* C18.  Dataset.String and the default serializer write one line per      *)
(* stored quad, S P O G . when the graph term is present and S P O . when  *)
(* it is absent, each line ended by a line break, and nothing else; a      *)
(* dataset holding only (<a>,<b>,<c>,<g>) gives "<a> <b> <c> <g> .\n".     *)
(***************************************************************************)
C18_FlatOneLinePerQuad ==
    (last.op = "String" \/ (last.op = "Serialize" /\ last.written = "nquads")) =>
        LET stored == quads[last.d]
            lines == Split(last.out, "\n")
            body == SubSeq(lines, 1, Len(lines) - 1)
        IN  /\ lines[Len(lines)] = ""
            /\ Len(body) = Cardinality(stored)
            /\ \A q \in stored :
                  Count(body, FlatLine(q.val)) =
                      Cardinality({r \in stored : FlatLine(r.val) = FlatLine(q.val)})
            /\ {q.val : q \in stored} = {QuadValue(Ra, Rb, Rc, Rg)} /\ Cardinality(stored) = 1
                  => last.out = "<a> <b> <c> <g> .\n"

\* String() of a dataset that holds only the quad (<a>,<b>,<c>,<g>)
C18_Witness ==
    /\ last.op = "String"
    /\ Cardinality(quads[last.d]) = 1
    /\ {q.val : q \in quads[last.d]} = {QuadValue(Ra, Rb, Rc, Rg)}
    /\ last.out = "<a> <b> <c> <g> .\n"

(***************************************************************************)
(* C19.  The sequence of IterQuads is a snapshot taken at the call: the    *)
(* producer has finished, without waiting for a receiver, when the call    *)
(* returns; the sequence has exactly the Len() elements the dataset had at *)
(* the call; and whatever Add and Remove do to the dataset while the       *)
(* sequence is consumed, the consumer receives the quads held at the call, *)
(* each once, and no other.                                                *)
(***************************************************************************)
C19_IterQuadsIsSnapshot ==
    iter.open =>
        /\ iter.closed /\ ~iter.blocked
        /\ Len(iter.got) + Len(iter.buf) = iter.len0
        /\ Cardinality(iter.snap) = iter.len0
        /\ Range(iter.got) \cup Range(iter.buf) = iter.snap
        /\ iter.done => Range(iter.got) = iter.snap /\ Len(iter.got) = iter.len0

\* half of a sequence of two quads is consumed; since the call one of its
\* quads was removed from the dataset and another quad was added
C19_Witness ==
    /\ iter.open
    /\ Len(iter.got) = 1
    /\ Len(iter.buf) = 1
    /\ iter.snap \ quads[iter.d] # {}
    /\ quads[iter.d] \ iter.snap # {}

(***************************************************************************)
(* C20.  Serialized output is reproducible: a second Serialize (or         *)
(* String) call on the same dataset state with the same format writes what *)
(* the first call wrote.                                                   *)
(***************************************************************************)
C20_SerializeReproducible ==
    /\ last.op = "Serialize" =>
          \A r \in Serialize(last.d, last.mime) : r.out = last.out
    /\ last.op = "String" =>
          \A out \in DatasetString(last.d) : out = last.out

(***************************************************************************)
(* C21.  Quad.Equal is symmetric and holds exactly when subject, predicate *)
(* and object are pairwise equal and the graph terms are either both       *)
(* absent or both present and equal; a quad with an absent graph is never  *)
(* equal to a quad with a present graph, in either argument order.  Terms  *)
(* are values, so two terms are equal exactly when they are the same       *)
(* variant with the same fields.                                           *)
(***************************************************************************)
C21_QuadEqualIsSymmetricAndExact ==
    last.op = "Equal" =>
        LET q == last.quad
            r == last.other
        IN  /\ last.out = QuadEqual(r, q)
            /\ last.out <=> /\ q.Subject = r.Subject
                            /\ q.Predicate = r.Predicate
                            /\ q.Object = r.Object
                            /\ q.Graph = r.Graph
            /\ (q.Graph = Nil) # (r.Graph = Nil) => ~last.out

\* a quad of the default graph was compared with the same triple in a named
\* graph, the absent graph being on the receiver
C21_Witness ==
    /\ last.op = "Equal"
    /\ ToTriple(last.quad) = ToTriple(last.other)
    /\ last.quad.Graph = Nil
    /\ last.other.Graph # Nil
    /\ ~last.out
(***************************************************************************)
(* The lines of a TriG document as the contract of the parse reads them.   *)
(***************************************************************************)
\* the largest element of a non-empty set of numbers
Max(S) == CHOOSE x \in S : \A y \in S : y <= x

\* the lines among the first n that contain an opening brace
Opens(lines, n) == {j \in 1..n : Contains(lines[j], "{")}

\* the lines among the first n that contain a closing brace
Closes(lines, n) == {j \in 1..n : Contains(lines[j], "}")}

\* the graph a line containing an opening brace names: the default graph
\* for empty text before the brace, the resource for <iri>
GraphOfDeclaration(line) ==
    CASE line = "{" -> Nil
      [] line = "<g> {" -> NewResource("g")
      [] line = "<g> { <a> <b> <c> . }" -> NewResource("g")

\* after the first n lines the parse is between a line containing an
\* opening brace and the next line containing a closing brace
InBlock(lines, n) ==
    /\ Opens(lines, n) # {}
    /\ \A k \in Closes(lines, n) : k < Max(Opens(lines, n))

\* a parse is under way and its last step called processTripleLines
HandedOff ==
    /\ last.op = "parseTrig"
    /\ Len(last.calls) > last.prev.ncalls

\* the arguments of the call of processTripleLines the last step made
LastCall == last.calls[Len(last.calls)]

\* the number of lines read before the last step
ReadBefore == IF last.done THEN Len(last.lines) ELSE last.i - 2

\* the quad values the last step inserted
Inserted == {q.val : q \in quads[last.d] \ last.pre}

\* the quad values of the triples the Turtle parser yields for a statement
\* group, tagged with the graph g; none when it rejects the group
TaggedTriples(group, g) ==
    LET parser == TurtleParser(Join(group, "\n"))
    IN  IF parser.err # "" THEN {}
        ELSE {QuadValue(parser.triples[k].Subject, parser.triples[k].Predicate,
                        parser.triples[k].Object, g) : k \in DOMAIN parser.triples}

(***************************************************************************)
(* C22.  During a TriG parse, every triple produced from a statement group *)
(* is inserted as a quad tagged with the graph that is active when the     *)
(* group is handed off; between a line containing `{` and the next line    *)
(* containing `}` the active graph is the one the `{` line names (the      *)
(* default graph for empty text before the brace, the resource for         *)
(* `<iri>`), so the statements between `<g> {` and the next `}` end up in  *)
(* graph g and in no other graph.                                          *)
(***************************************************************************)
C22_TrigTagsWithActiveGraph ==
    HandedOff =>
        /\ LastCall.currentGraph = last.prev.currentGraph
        /\ Inserted = TaggedTriples(LastCall.lines, last.prev.currentGraph)
        /\ InBlock(last.lines, ReadBefore) =>
              LET g == GraphOfDeclaration(last.lines[Max(Opens(last.lines, ReadBefore))])
              IN  /\ LastCall.currentGraph = g
                  /\ \A v \in Inserted : v.Graph = g

\* a statement read between `<g> {` and the next `}` was inserted into g
C22_Witness ==
    /\ HandedOff
    /\ InBlock(last.lines, ReadBefore)
    /\ last.lines[Max(Opens(last.lines, ReadBefore))] = "<g> {"
    /\ Inserted = {QuadValue(Ra, Rb, Rc, Rg)}
\* the number of lines the loop of a parse under way has read
LinesRead == last.i - 1

\* the first n lines end after a line containing a closing brace and before
\* the next line containing an opening brace
AfterClose(lines, n) ==
    /\ Closes(lines, n) # {}
    /\ \A j \in Opens(lines, n) : j <= Max(Closes(lines, n))

(***************************************************************************)
(* C23.  During a TriG parse, on every line containing `}` the pending     *)
(* buffer is flushed (handed off under the graph of the block being        *)
(* closed) and cleared and the active graph is reset to the default; so    *)
(* after any line containing `}` and until the next line containing `{`    *)
(* the active graph is the default graph and no statement read after the   *)
(* `}` is tagged with the closed block's graph.                            *)
(***************************************************************************)
C23_CloseBraceFlushesAndResets ==
    last.op = "parseTrig" =>
        /\ (~last.done /\ LinesRead \in Closes(last.lines, LinesRead)) =>
              /\ last.currentTripleLines = <<>>
              /\ last.currentGraph = Nil
              /\ last.prev.currentTripleLines # <<>> =>
                    /\ HandedOff
                    /\ LastCall.lines = last.prev.currentTripleLines
                    /\ LastCall.currentGraph = last.prev.currentGraph
        /\ AfterClose(last.lines, LinesRead) => last.currentGraph = Nil
        /\ (HandedOff /\ AfterClose(last.lines, ReadBefore)) =>
              \A v \in Inserted : v.Graph = Nil
\* the last step of a parse under way accumulated the line it read
Accumulated ==
    /\ last.op = "parseTrig"
    /\ ~last.done
    /\ \/ Len(last.currentTripleLines) > Len(last.prev.currentTripleLines)
       \/ HandedOff /\ Len(LastCall.lines) > Len(last.prev.currentTripleLines)

(***************************************************************************)
(* C24.  During a TriG parse, raw lines are accumulated into the pending   *)
(* buffer only while the parser is inside a block (after a line containing *)
(* `{` and before the matching line containing `}`); lines read outside    *)
(* any block are never accumulated and never handed to the Turtle parser.  *)
(***************************************************************************)
C24_AccumulatesOnlyInsideBlocks ==
    /\ Accumulated => InBlock(last.lines, LinesRead - 1)
    /\ HandedOff => InBlock(last.lines, ReadBefore)
\* the text of a line that holds a statement or a part of one, without the
\* surrounding white space; blank lines, comment lines and lines with a
\* brace hold none
StatementText(line) ==
    CASE line = "  <a> <b> <c> ." -> <<"<a> <b> <c> .">>
      [] line = "<a> <b> <c> ;" -> <<"<a> <b> <c> ;">>
      [] line = "<b> <x> ." -> <<"<b> <x> .">>
      [] OTHER -> <<>>

\* the statement texts of the first n lines, in their order
RECURSIVE StatementTexts(_, _)
StatementTexts(lines, n) ==
    IF n = 0 THEN <<>>
    ELSE StatementTexts(lines, n - 1) \o StatementText(lines[n])

\* the statement texts that end with `.`
EndsGroup(text) == text \in {<<"<a> <b> <c> .">>, <<"<b> <x> .">>}

\* the lines of the groups handed off so far, in their order
RECURSIVE HandedLines(_, _)
HandedLines(calls, n) ==
    IF n = 0 THEN <<>> ELSE HandedLines(calls, n - 1) \o calls[n].lines

(***************************************************************************)
(* C25.  During a TriG parse, the pending buffer is handed to the Turtle   *)
(* parser as one statement group exactly when the line just accumulated    *)
(* ends with `.`, or at a `}` line or the end of the input with a          *)
(* non-empty buffer; the group holds all lines accumulated since the       *)
(* previous hand-off in their original order and the buffer is empty       *)
(* immediately afterwards; a statement continued over several lines is     *)
(* handed off as a single group, and blank and comment lines are never     *)
(* part of a group.                                                        *)
(***************************************************************************)
C25_HandOffExactlyAtGroupEnd ==
    (last.op = "parseTrig" /\ (last.done \/ LinesRead >= 1)) =>
        LET text == IF last.done THEN <<>> ELSE StatementText(last.lines[LinesRead])
            pending == last.prev.currentTripleLines
        IN  /\ HandedOff <=>
                  IF last.done THEN pending # <<>>
                  ELSE \/ EndsGroup(text)
                       \/ /\ LinesRead \in Closes(last.lines, LinesRead)
                          /\ pending # <<>>
            /\ HandedOff =>
                  /\ LastCall.lines = pending \o text
                  /\ last.done \/ last.currentTripleLines = <<>>
            /\ HandedLines(last.calls, Len(last.calls)) \o
                  (IF last.done /\ HandedOff THEN <<>> ELSE last.currentTripleLines)
                  = StatementTexts(last.lines, LinesRead)
(***************************************************************************)
(* C26.  In every reachable state of a dataset, Term() equals the resource *)
(* term built from URI(): this holds for a new dataset (which also has     *)
(* Len() = 0 and URI() equal to the constructor argument) and is preserved *)
(* by every operation, including LoadURI on a dataset created with an      *)
(* empty base URI.                                                         *)
(***************************************************************************)
C26_TermIsResourceOfURI ==
    /\ \A d \in Datasets : DatasetTerm(d) = NewResource(DatasetURI(d))
    /\ last.op = "NewDataset" =>
          DatasetLen(last.d) = 0 /\ DatasetURI(last.d) = last.uri
(***************************************************************************)
(* C27.  Merge is idempotent and safe on itself: performing d1.Merge(d2) a *)
(* second time leaves d1's quad set and Len() as they were after the first *)
(* call, and d.Merge(d) terminates (the channel it ranges over is closed   *)
(* and was filled without waiting for a receiver) and leaves d's quad set  *)
(* and Len() unchanged.                                                    *)
(***************************************************************************)
C27_MergeIdempotentAndSelfSafe ==
    last.op = "Merge" =>
        /\ last.again =>
              /\ quads[last.d] = last.pre[last.d]
              /\ DatasetLen(last.d) = Cardinality(last.pre[last.d])
        /\ last.d = last.from =>
              /\ quads[last.d] = last.pre[last.d]
              /\ DatasetLen(last.d) = Cardinality(last.pre[last.d])
              /\ \A c \in IterQuadsChannel(last.from) :
                    c.closed /\ ~c.blocked /\ Len(c.buf) = DatasetLen(last.from)

\* a non-empty dataset was merged a second time into another one that did
\* not hold its quads before the first call
C27_Witness ==
    /\ last.op = "Merge"
    /\ last.again
    /\ last.d # last.from
    /\ quads[last.from] # {}
    /\ quads[last.from] \subseteq quads[last.d]
    /\ quads[last.d] # quads[last.from]

\* a non-empty dataset was merged into itself
C27_WitnessSelf ==
    /\ last.op = "Merge"
    /\ last.d = last.from
    /\ quads[last.d] # {}
\* the operations that read a dataset
ReadOps ==
    {"Len", "URI", "Term", "One", "All", "GetGraph", "GetDefaultGraph",
     "GetNamedGraphs", "String", "Serialize"}

(***************************************************************************)
(* C28.  Read operations leave the store unchanged: Len, URI, Term, One,   *)
(* All, GetGraph, GetDefaultGraph, GetNamedGraphs, String and Serialize    *)
(* (every format) do not change the dataset's set of stored quads;         *)
(* d1.Merge(d2) does not change d2's set of stored quads; and adding       *)
(* triples to a Graph returned by GetGraph does not change the dataset it  *)
(* was derived from.                                                       *)
(***************************************************************************)
C28_ReadsLeaveStoreUnchanged ==
    [][/\ last'.op \in ReadOps => quads' = quads
       /\ last'.op = "Merge" => quads'[last'.from] = quads[last'.from]
       /\ last'.op = "Graph.Add" => quads' = quads]_vars

\* a triple that the dataset does not hold was added to a Graph that
\* GetGraph returned for a dataset holding quads
C28_Witness ==
    /\ last.op = "Graph.Add"
    /\ last.res # last.res0
    /\ quads[last.d] # {}
    /\ \A q \in quads[last.d] : ToTriple(q.val) # last.t
(***************************************************************************)
(* C29.  During a TriG parse, the pending buffer is empty whenever a line  *)
(* containing `{` is processed, so a statement group is always tagged with *)
(* the graph that was active when its first line was accumulated: lines    *)
(* accumulated before a `{` line are never carried into the following      *)
(* block and inserted under that block's graph.                            *)
(***************************************************************************)
C29_BufferEmptyAtOpenBrace ==
    last.op = "parseTrig" =>
        /\ (~last.done /\ LinesRead \in Opens(last.lines, LinesRead)) =>
              last.prev.currentTripleLines = <<>>
        /\ HandedOff =>
              /\ LastCall.currentGraph = last.groupGraph
              /\ \A v \in Inserted : v.Graph = last.groupGraph
\* the places of the object values in a subject array: the subject object,
\* the field, and the position in the field
ValueSlots(arr) ==
    UNION {UNION {{<<k, f, j>> :
                     j \in 1..(IF arr.items[k].fields[f].json = "array"
                               THEN Len(arr.items[k].fields[f].items) ELSE 1)}
                  : f \in DOMAIN arr.items[k].fields \ {"@id"}}
           : k \in DOMAIN arr.items}

\* the places of the object values in a JSON-LD value, over all top-level
\* entries
AllValueSlots(out) ==
    UNION {{<<key, slot>> :
               slot \in ValueSlots(IF key = "@graph" THEN out.fields[key]
                                   ELSE out.fields[key].fields["@graph"])}
           : key \in DOMAIN out.fields}

(***************************************************************************)
(* C30.  JSON-LD serialization loses no graph and no triple: the number of *)
(* top-level entries equals (1 if the default graph is non-empty, else 0)  *)
(* plus the number of terms returned by GetNamedGraphs(), two distinct     *)
(* named graphs never share a top-level key, no named graph's key          *)
(* overwrites the default graph's `@graph` entry, and the total number of  *)
(* object values over all subject objects of all graphs equals Len().      *)
(***************************************************************************)
C30_JSONLDLosesNothing ==
    (last.op = "Serialize" /\ last.written = "jsonld") =>
        LET fields == last.out.fields
            default == {q \in quads[last.d] : q.val.Graph = Nil}
        IN  /\ \A names \in GetNamedGraphs(last.d) :
                  /\ Cardinality(DOMAIN fields) =
                        (IF default # {} THEN 1 ELSE 0) + Len(names)
                  /\ \A i, j \in DOMAIN names :
                        i # j => termToJSONLDID(names[i]) # termToJSONLDID(names[j])
                  /\ \A i \in DOMAIN names :
                        default # {} => termToJSONLDID(names[i]) # "@graph"
            /\ Cardinality(AllValueSlots(last.out)) = DatasetLen(last.d)
====
